---- MODULE Spec2Model ----
(***************************************************************************)
(* GFlights: the flight-search service (FlightService), the state          *)
(* container that drives it (FlightProvider) and the AsyncStorage keys     *)
(* they persist to.  Every asynchronous function is cut at its awaits:     *)
(* one action per resumption, the synchronous code up to the next await    *)
(* being part of the action.                                               *)
(***************************************************************************)
EXTENDS Integers, Sequences, FiniteSets, TLC

\* ------------------------------------------------------------------ bounds

\* Searches started in one behaviour of Spec.
MaxSearches == 2
\* Searches started in one behaviour of SpecCache (more than RecentLimit).
MaxAppends == 11
\* Calls of getPopularRoutes in one behaviour of SpecPopular.
MaxPopularCalls == 4
\* Searches started in one behaviour of SpecForm and of SpecFail.
MaxFormSearches == 1
\* Calls of getPopularRoutes in one behaviour of SpecStore.
MaxStoreCalls == 2
\* Entries in one nearby-airports answer.
MaxNearby == 3
\* requests the example backend receives
MaxRequests == 3
\* half minutes the backend's clock advances
MaxTicks == 4
\* Searches started from the form in one behaviour of SpecNav.
MaxNavSearches == 2
\* Calls of AuthService started in one behaviour of SpecAuth.
MaxAuthCalls == 3
\* Searches started in one behaviour of SpecOverlap.
MaxOverlapSearches == 3

\* ------------------------------------------------------- JavaScript values

\* undefined, for the string-valued fields of a request
Undefined == "<undefined>"
\* undefined, for the optional passenger counts (children, infants)
NoCount == -1

\* a value that is false in a boolean context: undefined or the empty string
Falsy(s) == s \in {Undefined, ""}

\* String.prototype.trim on the strings of the model
Trim(s) == IF s = "  " THEN "" ELSE s

\* the date strings `new Date(s)` turns into a valid Date
ParsableDates == {"2025-07-01", "2025-07-08"}

\* isNaN(new Date(s).getTime())
IsInvalidDate(s) == s \notin ParsableDates

\* Number.prototype.toString on the passenger counts of the model
NumToString(n) == CASE n = 0 -> "0" [] n = 1 -> "1" [] n = 2 -> "2"
                    [] n = 3 -> "3" [] OTHER -> "4"

\* x || 0 on an optional count
OrZero(n) == IF n = NoCount THEN 0 ELSE n

\* x?.toString() || dflt on an optional count
CountString(n, dflt) == IF n = NoCount THEN dflt ELSE NumToString(n)

\* ------------------------------------------------------------ AsyncStorage

RECENT_SEARCHES_KEY == "@gflights_recent_searches"
POPULAR_ROUTES_KEY == "@gflights_popular_routes"
StorageKeys == {RECENT_SEARCHES_KEY, POPULAR_ROUTES_KEY}

\* What a key holds: nothing (getItem resolves null), text that JSON.parse
\* rejects, or the text of a JSON array.
Absent == [tag |-> "absent", val |-> <<>>]
Corrupt == [tag |-> "corrupt", val |-> <<>>]

\* faulty variant: the text written is not JSON
StringifyUnparsable(list) == Corrupt

\* JSON.stringify of an array of plain records
Stringify(list) == [tag |-> "list", val |-> list]

\* JSON.parse(stored) throws a SyntaxError
ParseThrows(stored) == stored.tag = "corrupt"

\* the array JSON.parse(stored) returns
Parse(stored) == stored.val

\* faulty variant: push in place of unshift
UnshiftAtEnd(list, x) == Append(list, x)

\* Array.prototype.unshift
Unshift(list, x) == <<x>> \o list

\* Array.prototype.slice(0, n)
Slice(list, n) == SubSeq(list, 1, IF Len(list) < n THEN Len(list) ELSE n)

\* ---------------------------------------------------------- search request

MkRequest(o, d, oe, de, dep, ret, p) ==
    [originLocationCode |-> o, destinationLocationCode |-> d,
     originEntityId |-> oe, destinationEntityId |-> de,
     departureDate |-> dep, returnDate |-> ret,
     adults |-> p.adults, children |-> p.children, infants |-> p.infants,
     travelClass |-> "ECONOMY", currencyCode |-> "USD"]

\* the travel classes a caller may pass: the four of the enumeration, other
\* spellings of them, strings that are none of them, and none at all
TravelClasses ==
    {"ECONOMY", "PREMIUM_ECONOMY", "BUSINESS", "FIRST",
     "business", "First", "premium_economy", "LUXURY", "", Undefined}

WithTravelClass(req, travelClass) == [req EXCEPT !.travelClass = travelClass]

\* The requests a caller may hand to searchFlights: every combination of present
\* and absent codes, entity identifiers and departure date, and, for the
\* requests that pass validation, every kind of return date and both passenger
\* mixes.
SearchRequests ==
    {MkRequest(o, d, oe, de, dep, Undefined,
               [adults |-> 1, children |-> NoCount, infants |-> NoCount]) :
        o \in {"", "JFK"}, d \in {"", "LAX"},
        oe \in {Undefined, "95565058"}, de \in {Undefined, "95673368"},
        dep \in {"2025-07-01", "not-a-date"}}
    \cup {MkRequest("JFK", "LAX", "95565058", "95673368", "2025-07-01", ret,
                    [adults |-> 2, children |-> 1, infants |-> 1]) :
            ret \in {"  ", "not-a-date", "2025-07-08"}}

\* a request that passes validation, in every travel class
CabinRequests ==
    {WithTravelClass(
        MkRequest("JFK", "LAX", "95565058", "95673368", "2025-07-01", Undefined,
                  [adults |-> 1, children |-> NoCount, infants |-> NoCount]),
        travelClass) : travelClass \in TravelClasses}

\* the one request the cache specification repeats
CacheRequests ==
    {MkRequest("JFK", "LAX", "95565058", "95673368", "2025-07-01", Undefined,
               [adults |-> 1, children |-> NoCount, infants |-> NoCount])}

\* ------------------------------------------------- FlightService.searchFlights

NoError == "<none>"

\* faulty variant: the entity identifiers are not checked
ValidationErrorNoEntityIds(req) ==
    IF IsInvalidDate(req.departureDate)
    THEN "Invalid departure date format"
    ELSE IF Falsy(req.originLocationCode) \/ Falsy(req.destinationLocationCode)
    THEN "Origin and destination airport codes are required"
    ELSE NoError

\* faulty variant: the departure date is not checked
ValidationErrorNoDate(req) ==
    IF Falsy(req.originLocationCode) \/ Falsy(req.destinationLocationCode)
    THEN "Origin and destination airport codes are required"
    ELSE IF Falsy(req.originEntityId) \/ Falsy(req.destinationEntityId)
    THEN "Origin and destination entity IDs are required. Please select airports from the search results."
    ELSE NoError

\* the first validation of searchFlights that throws, in the order of the code
ValidationError(req) ==
    IF IsInvalidDate(req.departureDate)
    THEN "Invalid departure date format"
    ELSE IF Falsy(req.originLocationCode) \/ Falsy(req.destinationLocationCode)
    THEN "Origin and destination airport codes are required"
    ELSE IF Falsy(req.originEntityId) \/ Falsy(req.destinationEntityId)
    THEN "Origin and destination entity IDs are required. Please select airports from the search results."
    ELSE NoError

\* String.prototype.toUpperCase on the travel classes of the model
ToUpperCase(s) ==
    CASE s = "business" -> "BUSINESS"
      [] s = "First" -> "FIRST"
      [] s = "premium_economy" -> "PREMIUM_ECONOMY"
      [] OTHER -> s

\* faulty variant: the travel class is compared as it came
convertCabinClassExact(travelClass) ==
    CASE travelClass = "ECONOMY" -> "economy"
      [] travelClass = "PREMIUM_ECONOMY" -> "premium_economy"
      [] travelClass = "BUSINESS" -> "business"
      [] travelClass = "FIRST" -> "first"
      [] OTHER -> "economy"

\* switch (travelClass?.toUpperCase()); undefined?.toUpperCase() is undefined
convertCabinClass(travelClass) ==
    LET upper == IF travelClass = Undefined THEN Undefined ELSE ToUpperCase(travelClass)
    IN  CASE upper = "ECONOMY" -> "economy"
          [] upper = "PREMIUM_ECONOMY" -> "premium_economy"
          [] upper = "BUSINESS" -> "business"
          [] upper = "FIRST" -> "first"
          [] OTHER -> "economy"

\* faulty variant: the return date is sent without being parsed
IncludesReturnDateUnparsed(req) ==
    /\ ~Falsy(req.returnDate)
    /\ Trim(req.returnDate) # ""

\* whether the return date goes into the provider request
IncludesReturnDate(req) ==
    /\ ~Falsy(req.returnDate)
    /\ Trim(req.returnDate) # ""
    /\ ~IsInvalidDate(req.returnDate)

\* the body of POST /flights/search; returnDate is a field only when included
BackendRequest(req) ==
    LET base == [originSkyId |-> req.originLocationCode,
                 destinationSkyId |-> req.destinationLocationCode,
                 originEntityId |-> req.originEntityId,
                 destinationEntityId |-> req.destinationEntityId,
                 departureDate |-> req.departureDate,
                 cabinClass |-> convertCabinClass(req.travelClass),
                 adults |-> CountString(req.adults, "1"),
                 children |-> CountString(req.children, "0"),
                 infants |-> CountString(req.infants, "0"),
                 sortBy |-> "best",
                 currency |-> IF Falsy(req.currencyCode) THEN "USD" ELSE req.currencyCode,
                 market |-> "en-US",
                 countryCode |-> "US"]
    IN  IF IncludesReturnDate(req)
        THEN base @@ ("returnDate" :> req.returnDate)
        ELSE base

\* An error object: a thrown Error has no response; an axios error of an HTTP
\* status has one, with the body's message when the upstream sent one.
JsError(msg) ==
    [hasResponse |-> FALSE, status |-> 0, upstreamMessage |-> Undefined, message |-> msg]

\* what the upstream may answer to one POST /flights/search
Envelopes ==
    {[hasData |-> FALSE, data |-> <<>>, count |-> 7],
     [hasData |-> TRUE, data |-> <<>>, count |-> 7],
     [hasData |-> TRUE, data |-> <<"offer-B", "offer-A">>, count |-> 7]}

HttpErrors ==
    {[hasResponse |-> TRUE, status |-> st, upstreamMessage |-> m,
      message |-> "Request failed"] :
        st \in {401, 500}, m \in {Undefined, "Upstream is down"}}

TransportErrors == {JsError("timeout of 10000ms exceeded")}

Replies ==
    {[ok |-> TRUE, envelope |-> e, error |-> JsError("")] : e \in Envelopes}
    \cup {[ok |-> FALSE, envelope |-> [hasData |-> FALSE, data |-> <<>>, count |-> 0],
            error |-> x] : x \in HttpErrors \cup TransportErrors}

\* the one answer the cache specification uses
CacheReplies ==
    {[ok |-> TRUE, envelope |-> [hasData |-> TRUE, data |-> <<>>, count |-> 7],
      error |-> JsError("")]}

\* faulty variant: the upstream's message is ignored
CatchMessageTransportOnly(e) ==
    IF e.hasResponse /\ e.status = 401
    THEN "Authentication required. Please login again."
    ELSE "Flight search failed: " \o e.message

\* the message of the Error the catch block of searchFlights throws
CatchMessage(error) ==
    IF error.hasResponse /\ error.status = 401
    THEN "Authentication required. Please login again."
    ELSE "Flight search failed: "
         \o (IF error.hasResponse /\ ~Falsy(error.upstreamMessage)
             THEN error.upstreamMessage
             ELSE error.message)

\* response.data.data || []
ResponseData(envelope) == IF envelope.hasData THEN envelope.data ELSE <<>>

\* faulty variant: the count the upstream reports is passed on
ShapeResponseUpstreamCount(envelope) ==
    [data |-> ResponseData(envelope), count |-> envelope.count]

\* the FlightSearchResponse searchFlights returns
ShapeResponse(envelope) ==
    [data |-> ResponseData(envelope), count |-> Len(ResponseData(envelope))]

\* the promise of searchFlights: pending, resolved with a response, rejected
Pending == [status |-> "pending", message |-> NoError, data |-> <<>>, count |-> 0]
Resolved(resp) ==
    [status |-> "resolved", message |-> NoError, data |-> resp.data, count |-> resp.count]
Rejected(msg) == [status |-> "rejected", message |-> msg, data |-> <<>>, count |-> 0]

\* the RecentSearch record saveRecentSearch builds
MkRecentSearch(req, time) ==
    [id |-> time,
     origin |-> req.originLocationCode,
     destination |-> req.destinationLocationCode,
     departureDate |-> req.departureDate,
     returnDate |-> req.returnDate,
     passengers |-> req.adults + OrZero(req.children) + OrZero(req.infants),
     searchedAt |-> time]

RecentLimit == 10

\* faulty variant: the slice keeps one record too many
LimitedSearchesOffByOne(list, rs) == Slice(Unshift(list, rs), RecentLimit + 1)

\* recentSearches.unshift(recentSearch); recentSearches.slice(0, 10)
LimitedSearches(list, recentSearch) == Slice(Unshift(list, recentSearch), RecentLimit)

\* ------------------------------------------------------------------- state

VARIABLES
    storage,          \* AsyncStorage: key -> what it holds
    pc,               \* where the one searchFlights call of the provider stands
    cur,              \* searchRequest of the call
    posted,           \* bodies POSTed to /flights/search by the call, in order
    response,         \* response.data of the call's POST
    recentSearch,     \* saveRecentSearch: the record built
    stored,           \* saveRecentSearch: what getItem resolved with
    limitedSearches,  \* saveRecentSearch: the list to write
    saveOutcome,      \* saveRecentSearch: how it ended
    error,            \* the error the catch block of searchFlights caught
    result,           \* the promise flightService.searchFlights returned
    isLoading, searchError, flightOffers, recentSearches,  \* FlightProvider state
    lastGet,          \* what the last flightService.getRecentSearches returned
    now,              \* Date.now()
    nSearches,        \* searches started
    appended,         \* records written to the recent-searches key since it was empty
    fromEmpty,        \* the key was empty, and no clear fell into an append, since
    sinceClear,       \* the last clearRecentSearches, until the next append
    popPc,            \* where the getPopularRoutes call of each mount effect stands
    popularRoutes,    \* FlightProvider state: what the last call returned
    popLog,           \* the last two completed getPopularRoutes calls
    nPopular,         \* getPopularRoutes calls started
    searchRequest,    \* FlightSearchScreen state: the request the form has built
    alert,            \* the title of the Alert on screen, if any
    nearbyPc,         \* AirportMapScreen: where loadNearbyAirports stands
    nearbyBody,       \* the body GET /flights/nearby-airports answered with
    nearbyAirports,   \* AirportMapScreen state: the airports on the map
    accessToken,      \* backend-example.js: the cached OAuth token
    tokenExpiry,      \* backend-example.js: until when the cache is used
    serverNow,        \* Date.now() of the backend
    receivedAt,       \* when the response that filled the cache was handled
    requests,         \* the request each handler of the backend serves and where it stands
    nRequests,        \* requests the backend has received
    second,           \* a searchFlights call started while another is in flight
    screen,           \* the route on top of the stack, once FlightSearch is shown
    navigated,        \* handleSearch continuations run after their await
    token, user,      \* AuthService: this.token, this.user
    authorization,    \* api.defaults.headers.common['Authorization']
    authStorage,      \* AsyncStorage: what the token key and the user key hold
    authCalls,        \* the calls of AuthService in flight, one per method
    nAuthCalls        \* calls of AuthService started

searchVars == <<pc, cur, posted, response, recentSearch, stored, limitedSearches,
                saveOutcome, error, result>>
ctxVars == <<isLoading, searchError, flightOffers, recentSearches>>
ghostVars == <<nSearches, appended, fromEmpty, sinceClear>>
popVars == <<popPc, popularRoutes, popLog, nPopular>>
uiVars == <<searchRequest, alert, nearbyPc, nearbyBody, nearbyAirports>>
backendVars == <<accessToken, tokenExpiry, serverNow, receivedAt, requests, nRequests>>
navVars == <<screen, navigated>>
authVars == <<token, user, authorization, authStorage, authCalls, nAuthCalls>>
otherVars == <<backendVars, second, navVars, authVars>>
clientVars == <<storage, searchVars, ctxVars, lastGet, now, ghostVars, popVars, uiVars>>
vars == <<storage, searchVars, ctxVars, lastGet, now, ghostVars, popVars, uiVars,
         otherVars>>

\* the two mount effects that call getPopularRoutes()
PopCallers == {"FlightProvider", "HomeScreen"}

\* let accessToken = null
NullToken == [n |-> 0, issuedAt |-> 0, expires_in |-> 0]

\* let tokenExpiry = null
NullExpiry == [isNull |-> TRUE, ms |-> 0]

\* the handlers of the backend that can be running together
Handlers == {1, 2}

\* a handler that has not served a request yet
NewRequest ==
    [pc |-> "new", endpoint |-> "", params |-> [none |-> TRUE], at |-> 0, hit |-> FALSE,
     cachedSince |-> 0, token |-> NullToken, reply |-> NullToken, status |-> 0,
     upstream |-> <<>>, tokenFailure |-> [hasResponse |-> FALSE, status |-> 0],
     caught |-> [hasResponse |-> FALSE, status |-> 0]]

\* useState of FlightSearchScreen, once its mount effect has set the departure
\* date to tomorrow and, isRoundTrip being false, the return date to ''
InitialSearchRequest ==
    MkRequest("", "", Undefined, Undefined, "2025-07-01", "",
              [adults |-> 1, children |-> 0, infants |-> 0])

NoAlert == "<no alert>"

\* A JSON value: undefined, an array, or an object (a record of JSON values).
Undef == [t |-> "undefined", v |-> <<>>]
Arr(list) == [t |-> "array", v |-> list]
Obj(fields) == [t |-> "object", v |-> fields]

NoRequest == MkRequest("", "", Undefined, Undefined, "", Undefined,
                       [adults |-> 1, children |-> 0, infants |-> 0])
NoEnvelope == [hasData |-> FALSE, data |-> <<>>, count |-> 0]
NoRecord == MkRecentSearch(NoRequest, 0)
NoClear == [outcome |-> "none", hadList |-> FALSE]
NoGet == [value |-> <<>>, after |-> "nocall", hadList |-> FALSE]

\* null, for this.token and this.user
Null == "<null>"

TOKEN_KEY == "@gflights_token"
USER_KEY == "@gflights_user"
AuthKeys == {TOKEN_KEY, USER_KEY}

\* what a key of AsyncStorage holds: nothing, a string written as it is, the
\* JSON text of a value, or a text JSON.parse throws on
NoItem == [tag |-> "absent", val |-> ""]
Text(str) == [tag |-> "text", val |-> str]
Json(value) == [tag |-> "json", val |-> value]
NotJson == [tag |-> "corrupt", val |-> "{"]

\* no Authorization header among the defaults of the transport client
NoHeader == <<>>

AuthMethods == {"initializeAuth", "login", "register", "logout"}

\* a method of AuthService with no call in flight
NoAuthCall ==
    [pc |-> "idle", access_token |-> Null, user |-> Null,
     tokenItem |-> "none", userItem |-> "none", returned |-> "none",
     storedToken |-> NoItem, storedUser |-> NoItem, before |-> <<>>]

\* no call of searchFlights has been started while another was in flight
NoSecond ==
    [pc |-> "idle", cur |-> NoRequest, response |-> NoEnvelope,
     recentSearch |-> NoRecord, limitedSearches |-> <<>>, started |-> FALSE,
     doneAt |-> 0]

\* a record an earlier run of the app left in the store
OldRecord ==
    [id |-> 0, origin |-> "ORD", destination |-> "SFO", departureDate |-> "2025-06-01",
     returnDate |-> Undefined, passengers |-> 1, searchedAt |-> 0]

InitOver(recents, populars, auths) ==
    /\ storage \in {[k \in StorageKeys |-> IF k = RECENT_SEARCHES_KEY THEN r ELSE p] :
                        r \in recents, p \in populars}
    /\ popPc = [c \in PopCallers |-> "idle"]
    /\ accessToken = NullToken
    /\ tokenExpiry = NullExpiry
    /\ serverNow = 60000
    /\ receivedAt = 0
    /\ requests = [r \in Handlers |-> NewRequest]
    /\ nRequests = 0
    /\ second = NoSecond
    /\ screen = "FlightSearch"
    /\ navigated = 0
    /\ token = Null
    /\ user = Null
    /\ authorization = NoHeader
    /\ authStorage \in auths
    /\ authCalls = [m \in AuthMethods |-> NoAuthCall]
    /\ nAuthCalls = 0
    /\ searchRequest = InitialSearchRequest
    /\ alert = NoAlert
    /\ nearbyPc = "idle"
    /\ nearbyBody = Undef
    /\ nearbyAirports = <<>>
    /\ popularRoutes = <<>>
    /\ popLog = <<>>
    /\ nPopular = 0
    /\ pc = "idle"
    /\ cur = NoRequest
    /\ posted = <<>>
    /\ response = NoEnvelope
    /\ recentSearch = NoRecord
    /\ stored = Absent
    /\ limitedSearches = <<>>
    /\ saveOutcome = "none"
    /\ error = JsError("")
    /\ result = Pending
    /\ isLoading = FALSE
    /\ searchError = NoError
    /\ flightOffers = <<>>
    /\ recentSearches = <<>>
    /\ lastGet = NoGet
    /\ now = 1
    /\ nSearches = 0
    /\ appended = <<>>
    /\ fromEmpty = (storage[RECENT_SEARCHES_KEY] = Absent)
    /\ sinceClear = NoClear

\* the app is started for the first time: nothing of AuthService is stored
InitWith(recents, populars) ==
    InitOver(recents, populars, {[k \in AuthKeys |-> NoItem]})

Init == InitWith({Absent, Corrupt, Stringify(<<OldRecord>>)}, {Absent})

\* ---------------------------------------------------------------- actions

\* faulty variant: no finally, isLoading is left as it is
CtxCatchStaysLoading(msg) ==
    /\ searchError' = msg
    /\ flightOffers' = <<>>
    /\ UNCHANGED <<isLoading, recentSearches>>

\* faulty variant: the catch block leaves the offers on display
CtxCatchKeepsOffers(msg) ==
    /\ searchError' = msg
    /\ isLoading' = FALSE
    /\ UNCHANGED <<flightOffers, recentSearches>>

\* FlightProvider's catch and finally, run when the service promise rejects
CtxCatch(msg) ==
    /\ searchError' = msg
    /\ flightOffers' = <<>>
    /\ isLoading' = FALSE
    /\ UNCHANGED recentSearches

\* The search button (disabled while isLoading) calls FlightProvider.searchFlights,
\* which calls flightService.searchFlights: it validates, and either throws or
\* POSTs the provider request.
StartSearch(req) ==
    /\ pc = "idle"
    /\ ~isLoading
    /\ cur' = req
    /\ nSearches' = nSearches + 1
    /\ IF ValidationError(req) # NoError
       THEN /\ posted' = <<>>
            /\ error' = JsError(ValidationError(req))
            /\ result' = Rejected(CatchMessage(JsError(ValidationError(req))))
            /\ CtxCatch(CatchMessage(JsError(ValidationError(req))))
            /\ pc' = "idle"
       ELSE /\ posted' = <<BackendRequest(req)>>
            /\ error' = JsError("")
            /\ result' = Pending
            /\ isLoading' = TRUE
            /\ searchError' = NoError
            /\ pc' = "post"
            /\ UNCHANGED <<flightOffers, recentSearches>>
    /\ UNCHANGED <<storage, response, recentSearch, stored, limitedSearches, saveOutcome,
                   lastGet, now, appended, fromEmpty, sinceClear>>
    /\ UNCHANGED <<popVars, otherVars, uiVars>>

\* faulty variant: the offers are added to those on display
ReturnResponseAddsOffers ==
    /\ result' = Resolved(ShapeResponse(response))
    /\ flightOffers' = flightOffers \o ShapeResponse(response).data
    /\ pc' = "refresh"
    /\ UNCHANGED <<isLoading, searchError, recentSearches>>

\* the service's continuation once saveRecentSearch has returned: shape the
\* response and resolve; FlightProvider stores the offers and awaits the refresh
ReturnResponse ==
    /\ result' = Resolved(ShapeResponse(response))
    /\ flightOffers' = ShapeResponse(response).data
    /\ pc' = "refresh"
    /\ UNCHANGED <<isLoading, searchError, recentSearches>>

\* faulty variant: a failed POST is sent once more before the call gives up
PostReplyRetries(reply) ==
    /\ pc = "post"
    /\ IF reply.ok
       THEN /\ response' = reply.envelope
            /\ recentSearch' = MkRecentSearch(cur, now)
            /\ now' = now + 1
            /\ pc' = "saveGetItem"
            /\ UNCHANGED <<posted, error, result, ctxVars>>
       ELSE IF Len(posted) < 2
       THEN /\ posted' = Append(posted, BackendRequest(cur))
            /\ error' = reply.error
            /\ UNCHANGED <<pc, result, ctxVars, response, recentSearch, now>>
       ELSE /\ error' = reply.error
            /\ result' = Rejected(CatchMessage(reply.error))
            /\ CtxCatch(CatchMessage(reply.error))
            /\ pc' = "idle"
            /\ UNCHANGED <<posted, response, recentSearch, now>>
    /\ UNCHANGED <<storage, cur, stored, limitedSearches, saveOutcome,
                   lastGet, ghostVars>>
    /\ UNCHANGED <<popVars, otherVars, uiVars>>

\* faulty variant: the search is recorded whatever the POST settled with
PostReplyRecordsFailures(reply) ==
    /\ pc = "post"
    /\ response' = reply.envelope
    /\ recentSearch' = MkRecentSearch(cur, now)
    /\ now' = now + 1
    /\ pc' = "saveGetItem"
    /\ error' = reply.error
    /\ UNCHANGED <<result, ctxVars>>
    /\ UNCHANGED <<storage, cur, posted, stored, limitedSearches, saveOutcome,
                   lastGet, ghostVars>>
    /\ UNCHANGED <<popVars, otherVars, uiVars>>

\* api.post settles: on an error the catch block rethrows; on success
\* saveRecentSearch builds its record and awaits getItem.
PostReply(reply) ==
    /\ pc = "post"
    /\ IF reply.ok
       THEN /\ response' = reply.envelope
            /\ recentSearch' = MkRecentSearch(cur, now)
            /\ now' = now + 1
            /\ pc' = "saveGetItem"
            /\ UNCHANGED <<error, result, ctxVars>>
       ELSE /\ error' = reply.error
            /\ result' = Rejected(CatchMessage(reply.error))
            /\ CtxCatch(CatchMessage(reply.error))
            /\ pc' = "idle"
            /\ UNCHANGED <<response, recentSearch, now>>
    /\ UNCHANGED <<storage, cur, posted, stored, limitedSearches, saveOutcome,
                   lastGet, ghostVars>>
    /\ UNCHANGED <<popVars, otherVars, uiVars>>

\* saveRecentSearch after getItem: parse, unshift, slice, and await setItem; a
\* rejected read or a throwing parse ends saveRecentSearch in its catch.
SaveGetItem(ok) ==
    /\ pc = "saveGetItem"
    /\ IF ok /\ ~ParseThrows(storage[RECENT_SEARCHES_KEY])
       THEN /\ stored' = storage[RECENT_SEARCHES_KEY]
            /\ limitedSearches' =
                  LimitedSearches(IF storage[RECENT_SEARCHES_KEY] = Absent
                                  THEN <<>>
                                  ELSE Parse(storage[RECENT_SEARCHES_KEY]),
                                  recentSearch)
            /\ pc' = "saveSetItem"
            /\ UNCHANGED <<saveOutcome, result, ctxVars>>
       ELSE /\ stored' = IF ok THEN storage[RECENT_SEARCHES_KEY] ELSE Absent
            /\ saveOutcome' = IF ok THEN "parse threw" ELSE "read rejected"
            /\ ReturnResponse
            /\ UNCHANGED limitedSearches
    /\ UNCHANGED <<storage, cur, posted, response, recentSearch, error, lastGet, now,
                   ghostVars>>
    /\ UNCHANGED <<popVars, otherVars, uiVars>>

\* saveRecentSearch after setItem, then the rest of searchFlights
SaveSetItem(ok) ==
    /\ pc = "saveSetItem"
    /\ IF ok
       THEN /\ storage' = [storage EXCEPT ![RECENT_SEARCHES_KEY] = Stringify(limitedSearches)]
            /\ saveOutcome' = "written"
            /\ appended' = Append(appended, recentSearch)
            /\ sinceClear' = NoClear
       ELSE /\ saveOutcome' = "write rejected"
            /\ UNCHANGED <<storage, appended, sinceClear>>
    /\ ReturnResponse
    /\ UNCHANGED <<cur, posted, response, recentSearch, stored, limitedSearches, error,
                   lastGet, now, nSearches, fromEmpty>>
    /\ UNCHANGED <<popVars, otherVars, uiVars>>

\* faulty variant: a rejected read is not told from a resolved one
GetRecentSearchesResultAnyRead(ok) ==
    IF storage[RECENT_SEARCHES_KEY] # Absent
          /\ ~ParseThrows(storage[RECENT_SEARCHES_KEY])
    THEN Parse(storage[RECENT_SEARCHES_KEY])
    ELSE <<>>

\* flightService.getRecentSearches: what it returns when getItem resolves (ok)
\* or rejects
GetRecentSearchesResult(ok) ==
    IF ok /\ storage[RECENT_SEARCHES_KEY] # Absent
          /\ ~ParseThrows(storage[RECENT_SEARCHES_KEY])
    THEN Parse(storage[RECENT_SEARCHES_KEY])
    ELSE <<>>

\* FlightProvider.getRecentSearches, as awaited at the end of a search
Refresh(ok) ==
    /\ pc = "refresh"
    /\ lastGet' = [value |-> GetRecentSearchesResult(ok), after |-> sinceClear.outcome,
                   hadList |-> sinceClear.hadList]
    /\ recentSearches' = GetRecentSearchesResult(ok)
    /\ isLoading' = FALSE
    /\ pc' = "idle"
    /\ response' = NoEnvelope
    /\ recentSearch' = NoRecord
    /\ stored' = Absent
    /\ limitedSearches' = <<>>
    /\ saveOutcome' = "none"
    /\ UNCHANGED <<storage, cur, posted, error, result, searchError, flightOffers, now,
                   ghostVars>>
    /\ UNCHANGED <<popVars, otherVars, uiVars>>

\* FlightProvider.getRecentSearches, called by a mount effect
GetRecentSearches(ok) ==
    /\ lastGet' = [value |-> GetRecentSearchesResult(ok), after |-> sinceClear.outcome,
                   hadList |-> sinceClear.hadList]
    /\ recentSearches' = GetRecentSearchesResult(ok)
    /\ UNCHANGED <<storage, searchVars, isLoading, searchError, flightOffers, now, ghostVars>>
    /\ UNCHANGED <<popVars, otherVars, uiVars>>

\* faulty variant: the other key is removed
ClearedKeyPopular == POPULAR_ROUTES_KEY

\* the key flightService.clearRecentSearches removes
ClearedKey == RECENT_SEARCHES_KEY

\* FlightProvider.clearRecentSearches: removeItem resolves (ok) or rejects, the
\* service swallows the rejection, and the provider empties its list
ClearRecentSearches(ok) ==
    /\ storage' = IF ok THEN [storage EXCEPT ![ClearedKey] = Absent] ELSE storage
    /\ recentSearches' = <<>>
    /\ sinceClear' = [outcome |-> IF ok THEN "removed" ELSE "rejected",
                       hadList |-> storage[RECENT_SEARCHES_KEY].tag = "list"]
    /\ appended' = IF ok THEN <<>> ELSE appended
    /\ fromEmpty' = IF ok THEN pc # "saveSetItem" ELSE fromEmpty
    /\ UNCHANGED <<searchVars, isLoading, searchError, flightOffers, lastGet, now, nSearches>>
    /\ UNCHANGED <<popVars, otherVars, uiVars>>

\* FlightProvider.clearSearchResults, run when FlightResultsScreen unmounts
ClearSearchResults ==
    /\ flightOffers' = <<>>
    /\ searchError' = NoError
    /\ UNCHANGED <<storage, searchVars, isLoading, recentSearches, lastGet, now, ghostVars>>
    /\ UNCHANGED <<popVars, otherVars, uiVars>>

\* --------------------------------------- FlightProvider, overlapping calls

\* FlightProvider.searchFlights is called while a call of it is in flight:
\* the same code runs for the second call, on the same provider state.
SecondSearch(req) ==
    /\ pc # "idle"
    /\ second.pc = "idle"
    /\ nSearches' = nSearches + 1
    /\ IF ValidationError(req) # NoError
       THEN /\ CtxCatch(CatchMessage(JsError(ValidationError(req))))
            /\ second' = [NoSecond EXCEPT !.cur = req, !.started = TRUE,
                                          !.doneAt = nSearches + 1]
       ELSE /\ isLoading' = TRUE
            /\ searchError' = NoError
            /\ second' = [NoSecond EXCEPT !.pc = "post", !.cur = req, !.started = TRUE]
            /\ UNCHANGED <<flightOffers, recentSearches>>
    /\ UNCHANGED <<storage, searchVars, lastGet, now, appended, fromEmpty, sinceClear,
                   popVars, uiVars, backendVars, navVars, authVars>>

\* the second call's continuation once saveRecentSearch has returned
SecondReturnResponse ==
    /\ flightOffers' = ShapeResponse(second.response).data
    /\ UNCHANGED <<isLoading, searchError, recentSearches>>

\* api.post of the second call settles
SecondPostReply(reply) ==
    /\ second.pc = "post"
    /\ IF reply.ok
       THEN /\ second' = [second EXCEPT !.pc = "saveGetItem",
                                        !.response = reply.envelope,
                                        !.recentSearch = MkRecentSearch(second.cur, now)]
            /\ now' = now + 1
            /\ UNCHANGED ctxVars
       ELSE /\ CtxCatch(CatchMessage(reply.error))
            /\ second' = [second EXCEPT !.pc = "idle", !.doneAt = nSearches]
            /\ UNCHANGED now
    /\ UNCHANGED <<storage, searchVars, lastGet, ghostVars, popVars, uiVars, backendVars, navVars, authVars>>

\* saveRecentSearch of the second call after getItem
SecondSaveGetItem(ok) ==
    /\ second.pc = "saveGetItem"
    /\ IF ok /\ ~ParseThrows(storage[RECENT_SEARCHES_KEY])
       THEN /\ second' =
                  [second EXCEPT
                     !.pc = "saveSetItem",
                     !.limitedSearches =
                        LimitedSearches(IF storage[RECENT_SEARCHES_KEY] = Absent
                                        THEN <<>>
                                        ELSE Parse(storage[RECENT_SEARCHES_KEY]),
                                        second.recentSearch)]
            /\ UNCHANGED ctxVars
       ELSE /\ second' = [second EXCEPT !.pc = "refresh"]
            /\ SecondReturnResponse
    /\ UNCHANGED <<storage, searchVars, lastGet, now, ghostVars, popVars, uiVars,
                   backendVars, navVars, authVars>>

\* saveRecentSearch of the second call after setItem, then the rest of the
\* service call
SecondSaveSetItem(ok) ==
    /\ second.pc = "saveSetItem"
    /\ IF ok
       THEN /\ storage' = [storage EXCEPT
                             ![RECENT_SEARCHES_KEY] = Stringify(second.limitedSearches)]
            /\ appended' = Append(appended, second.recentSearch)
            /\ sinceClear' = NoClear
       ELSE UNCHANGED <<storage, appended, sinceClear>>
    /\ second' = [second EXCEPT !.pc = "refresh"]
    /\ SecondReturnResponse
    /\ UNCHANGED <<searchVars, lastGet, now, nSearches, fromEmpty, popVars, uiVars,
                   backendVars, navVars, authVars>>

\* getRecentSearches at the end of the second call, and its finally
SecondRefresh(ok) ==
    /\ second.pc = "refresh"
    /\ lastGet' = [value |-> GetRecentSearchesResult(ok), after |-> sinceClear.outcome,
                   hadList |-> sinceClear.hadList]
    /\ recentSearches' = GetRecentSearchesResult(ok)
    /\ isLoading' = FALSE
    /\ second' = [second EXCEPT !.pc = "idle", !.doneAt = nSearches]
    /\ UNCHANGED <<storage, searchVars, searchError, flightOffers, now, ghostVars,
                   popVars, uiVars, backendVars, navVars, authVars>>

\* ------------------------------------------------------ FlightSearchScreen

\* an Airport, as far as the form reads it
MkAirport(skyId, iataCode, entityId, id) ==
    [skyId |-> skyId, iataCode |-> iataCode, entityId |-> entityId, id |-> id]

\* what the airport search of the modal lists: an airport with both provider
\* identifiers and one with neither
AirportSearchResults ==
    {MkAirport("JFK", "JFK", "95565058", "95565058"),
     MkAirport(Undefined, "LAX", Undefined, "95673368")}

\* the airports AirportMapScreen hands over in route.params.selectedAirports
MapAirports ==
    {MkAirport("JFK", "JFK", "95565058", "95565058"),
     MkAirport("LAX", "LAX", "95673368", "95673368")}

\* the entries of popularAirportMap the model uses
popularAirportMap ==
    "JFK" :> MkAirport("NYCA", "JFK", "27537542", "27537542")

AirportTypes == {"origin", "destination"}

\* airport.skyId || airport.iataCode
AirportCode(airport) ==
    IF Falsy(airport.skyId) THEN airport.iataCode ELSE airport.skyId

\* airport.entityId || airport.id
AirportEntityId(airport) ==
    IF Falsy(airport.entityId) THEN airport.id ELSE airport.entityId

\* setSearchRequest(prev => ({...prev, <type>LocationCode, <type>EntityId}))
SetAirport(req, type, airport) ==
    IF type = "origin"
    THEN [req EXCEPT !.originLocationCode = AirportCode(airport),
                     !.originEntityId = AirportEntityId(airport)]
    ELSE [req EXCEPT !.destinationLocationCode = AirportCode(airport),
                     !.destinationEntityId = AirportEntityId(airport)]

\* a handler of the form that only sets searchRequest; an Alert on screen
\* takes every touch until it is dismissed
SetSearchRequest(next) ==
    /\ alert = NoAlert
    /\ searchRequest' = next
    /\ UNCHANGED <<storage, searchVars, ctxVars, lastGet, now, ghostVars, popVars, otherVars,
                   alert, nearbyPc, nearbyBody, nearbyAirports>>

\* an airport of the search results is pressed in the modal opened for type
handleAirportSelect(type, airport) ==
    SetSearchRequest(SetAirport(searchRequest, type, airport))

\* an airport of the popular list is pressed in the modal opened for type
handleAirportCodeSelect(type, airportCode) ==
    /\ airportCode \in DOMAIN popularAirportMap
    /\ handleAirportSelect(type, popularAirportMap[airportCode])

\* AirportMapScreen.handleContinue navigates back with two airports of
\* different id, and the effect on route.params copies both into the form
SelectedAirportsEffect(origin, destination) ==
    /\ origin.id # destination.id
    /\ SetSearchRequest(SetAirport(SetAirport(searchRequest, "origin", origin),
                                   "destination", destination))

swapAirports ==
    SetSearchRequest([searchRequest EXCEPT
                        !.originLocationCode = searchRequest.destinationLocationCode,
                        !.destinationLocationCode = searchRequest.originLocationCode])

\* faulty variant: origin and destination are not compared
HandleSearchAlertNoRouteCheck(req) ==
    IF Falsy(req.originLocationCode) \/ Falsy(req.destinationLocationCode)
          \/ Falsy(req.departureDate)
    THEN "Missing Information"
    ELSE NoAlert

\* the Alert handleSearch raises in place of searching, if any
HandleSearchAlert(req) ==
    IF Falsy(req.originLocationCode) \/ Falsy(req.destinationLocationCode)
          \/ Falsy(req.departureDate)
    THEN "Missing Information"
    ELSE IF req.originLocationCode = req.destinationLocationCode
    THEN "Invalid Route"
    ELSE NoAlert

\* faulty variant: the button stays enabled during a search
SearchButtonNeverDisabled == FALSE

\* disabled={isLoading} on the search button
SearchButtonDisabled == isLoading

\* the search button is pressed
handleSearch ==
    /\ alert = NoAlert
    /\ ~SearchButtonDisabled
    /\ IF HandleSearchAlert(searchRequest) # NoAlert
       THEN /\ alert' = HandleSearchAlert(searchRequest)
            /\ UNCHANGED <<storage, searchVars, ctxVars, lastGet, now, ghostVars, popVars, otherVars,
                           searchRequest, nearbyPc, nearbyBody, nearbyAirports>>
       ELSE StartSearch(searchRequest)

\* the button of the Alert is pressed
DismissAlert ==
    /\ alert # NoAlert
    /\ alert' = NoAlert
    /\ UNCHANGED <<storage, searchVars, ctxVars, lastGet, now, ghostVars, popVars, otherVars,
                   searchRequest, nearbyPc, nearbyBody, nearbyAirports>>

\* FlightProvider.searchFlights catches every error of the service and
\* returns: the promise handleSearch awaits never rejects
ProviderSearchRejects == FALSE

\* the promise handleSearch awaits has settled and its continuation has not run
HandleSearchResumes == pc = "idle" /\ navigated < nSearches

\* handleSearch after await searchFlights(searchRequest): navigate, or the
\* 'Search Error' alert of its catch block
HandleSearchReturns ==
    /\ HandleSearchResumes
    /\ navigated' = navigated + 1
    /\ IF ProviderSearchRejects
       THEN /\ alert' = "Search Error"
            /\ UNCHANGED screen
       ELSE /\ screen' = "FlightResults"
            /\ UNCHANGED alert
    /\ UNCHANGED <<storage, searchVars, ctxVars, lastGet, now, ghostVars, popVars,
                   searchRequest, nearbyPc, nearbyBody, nearbyAirports, backendVars,
                   second, authVars>>

\* FlightResultsScreen: Back or New Search pops the route, and the cleanup of
\* its effect calls clearSearchResults
LeaveResults ==
    /\ screen = "FlightResults"
    /\ screen' = "FlightSearch"
    /\ flightOffers' = <<>>
    /\ searchError' = NoError
    /\ UNCHANGED <<storage, searchVars, isLoading, recentSearches, lastGet, now,
                   ghostVars, popVars, uiVars, backendVars, second, navigated,
                   authVars>>

\* the form takes touches: it is on top and no continuation is due
FormOnTop == screen = "FlightSearch" /\ ~HandleSearchResumes

\* -------------------------------------------------------- AirportMapScreen

\* One entry of the nearby list, as far as transformAirportData reads it:
\* skyId, navigation.relevantFlightParams.skyId and navigation.entityId.
NearbyEntries ==
    {[skyId |-> "JFK", flightParamsSkyId |-> "JFK", entityId |-> "95565058"],
     [skyId |-> "LGA", flightParamsSkyId |-> Undefined, entityId |-> "95565057"],
     [skyId |-> Undefined, flightParamsSkyId |-> Undefined, entityId |-> "27537542"]}

\* the lists of at most MaxNearby entries
NearbyLists == UNION {[1..n -> NearbyEntries] : n \in 0..MaxNearby}

\* The bodies GET /flights/nearby-airports may answer with: the list under
\* data.nearby, under data.data.nearby, as data itself, no data at all, and
\* something that is not an array under data.data.nearby.
NearbyBodies ==
    {Obj([data |-> Obj([nearby |-> Arr(list)])]) : list \in NearbyLists}
    \cup {Obj([data |-> Obj([data |-> Obj([nearby |-> Arr(list)])])]) :
            list \in NearbyLists}
    \cup {Obj([data |-> Arr(list)]) : list \in NearbyLists}
    \cup {Obj([status |-> Undef]),
          Obj([data |-> Obj([data |-> Obj([nearby |-> Obj([status |-> Undef])])])])}

\* value.field and value?.field: undefined unless value is an object with it
Get(value, field) ==
    IF value.t = "object"
    THEN IF field \in DOMAIN value.v THEN value.v[field] ELSE Undef
    ELSE Undef

\* value || []
OrEmptyArray(value) == IF value.t = "undefined" THEN Arr(<<>>) ELSE value

\* the AirportSearchResponse flightService.getNearbyAirports returns for a body
getNearbyAirports(body) ==
    [data |-> OrEmptyArray(Get(body, "data")),
     count |-> IF Get(body, "data").t = "array" THEN Len(Get(body, "data").v) ELSE 0]

\* one Airport of transformAirportData
TransformAirport(entry) ==
    MkAirport(IF Falsy(entry.skyId) THEN entry.flightParamsSkyId ELSE entry.skyId,
              IF ~Falsy(entry.skyId) THEN entry.skyId
              ELSE IF ~Falsy(entry.flightParamsSkyId) THEN entry.flightParamsSkyId
              ELSE "N/A",
              entry.entityId,
              entry.entityId)

\* apiAirports.map(...)
transformAirportData(apiAirports) ==
    [i \in 1..Len(apiAirports) |-> TransformAirport(apiAirports[i])]

\* (response.data as any)?.data?.nearby || []
NearbyAirportsData(resp) ==
    OrEmptyArray(Get(Get(resp.data, "data"), "nearby"))

\* the mount effect of AirportMapScreen reaches loadNearbyAirports, which
\* awaits flightService.getNearbyAirports
StartLoadNearbyAirports ==
    /\ nearbyPc = "idle"
    /\ nearbyPc' = "loading"
    /\ UNCHANGED <<storage, searchVars, ctxVars, lastGet, now, ghostVars, popVars, otherVars,
                   searchRequest, alert, nearbyBody, nearbyAirports>>

\* api.get resolves with a body: the service shapes its response and
\* loadNearbyAirports sets the airports of the map
loadNearbyAirports(body) ==
    /\ nearbyPc = "loading"
    /\ nearbyPc' = "done"
    /\ nearbyBody' = body
    /\ IF NearbyAirportsData(getNearbyAirports(body)).t = "array"
       THEN /\ nearbyAirports' =
                  transformAirportData(NearbyAirportsData(getNearbyAirports(body)).v)
            /\ UNCHANGED alert
       ELSE /\ alert' = "Error"
            /\ UNCHANGED nearbyAirports
    /\ UNCHANGED <<storage, searchVars, ctxVars, lastGet, now, ghostVars, popVars, otherVars,
                   searchRequest>>

\* api.get rejects: the service throws, loadNearbyAirports alerts
loadNearbyAirportsFails ==
    /\ nearbyPc = "loading"
    /\ nearbyPc' = "done"
    /\ alert' = "Error"
    /\ UNCHANGED <<storage, searchVars, ctxVars, lastGet, now, ghostVars, popVars, otherVars,
                   searchRequest, nearbyBody, nearbyAirports>>

\* ------------------------------------------- FlightService.getPopularRoutes

mockPopularRoutes ==
    <<[origin |-> "JFK", destination |-> "LAX", popularity |-> 95],
      [origin |-> "LAX", destination |-> "SFO", popularity |-> 88],
      [origin |-> "ORD", destination |-> "LAX", popularity |-> 82],
      [origin |-> "JFK", destination |-> "LHR", popularity |-> 78],
      [origin |-> "LAX", destination |-> "NRT", popularity |-> 75]>>

\* a copy of the key that something else rewrote
ModifiedRoutes == <<[origin |-> "SEA", destination |-> "BOS", popularity |-> 10]>>

\* faulty variant: the stored copy is never used
PopularIsStoredNever(value) == FALSE

\* if (stored)
PopularIsStored(value) == value # Absent

\* a call of getPopularRoutes ends: the provider keeps what it returned
PopularReturns(c, routes, wrote, rejected) ==
    /\ popularRoutes' = routes
    /\ popLog' = LET e == [returned |-> routes, wrote |-> wrote, rejected |-> rejected]
                  IN  IF Len(popLog) = 2 THEN <<popLog[2], e>> ELSE Append(popLog, e)
    /\ popPc' = [popPc EXCEPT ![c] = "idle"]

\* The mount effect c calls FlightProvider.getPopularRoutes, which calls the
\* service, which awaits getItem.
StartPopularRoutes(c) ==
    /\ popPc[c] = "idle"
    /\ popPc' = [popPc EXCEPT ![c] = "getItem"]
    /\ nPopular' = nPopular + 1
    /\ UNCHANGED <<storage, searchVars, ctxVars, lastGet, now, ghostVars,
                   popularRoutes, popLog, uiVars, otherVars>>

\* getItem settles: a stored copy is parsed and returned, a rejection or a
\* throwing parse returns the mock list, an absent key leads to the seed write
PopularGetItem(c, ok) ==
    /\ popPc[c] = "getItem"
    /\ IF ~ok
       THEN PopularReturns(c, mockPopularRoutes, FALSE, TRUE)
       ELSE IF PopularIsStored(storage[POPULAR_ROUTES_KEY])
       THEN IF ParseThrows(storage[POPULAR_ROUTES_KEY])
            THEN PopularReturns(c, mockPopularRoutes, FALSE, FALSE)
            ELSE PopularReturns(c, Parse(storage[POPULAR_ROUTES_KEY]), FALSE, FALSE)
       ELSE /\ popPc' = [popPc EXCEPT ![c] = "setItem"]
            /\ UNCHANGED <<popularRoutes, popLog>>
    /\ UNCHANGED <<storage, searchVars, ctxVars, lastGet, now, ghostVars, nPopular,
                   uiVars, otherVars>>

\* setItem of the seed list settles; the mock list is returned either way
PopularSetItem(c, ok) ==
    /\ popPc[c] = "setItem"
    /\ storage' = IF ok
                   THEN [storage EXCEPT ![POPULAR_ROUTES_KEY] = Stringify(mockPopularRoutes)]
                   ELSE storage
    /\ PopularReturns(c, mockPopularRoutes, TRUE, ~ok)
    /\ UNCHANGED <<searchVars, ctxVars, lastGet, now, ghostVars, nPopular, uiVars, otherVars>>

\* --------------------------------------------------------- specifications

Next ==
    \/ \E req \in SearchRequests : nSearches < MaxSearches /\ StartSearch(req)
    \/ \E reply \in Replies : PostReply(reply)
    \/ \E ok \in BOOLEAN : SaveGetItem(ok)
    \/ \E ok \in BOOLEAN : SaveSetItem(ok)
    \/ \E ok \in BOOLEAN : Refresh(ok)
    \/ \E ok \in BOOLEAN : GetRecentSearches(ok)
    \/ \E ok \in BOOLEAN : ClearRecentSearches(ok)
    \/ ClearSearchResults

Spec == Init /\ [][Next]_vars

\* The recent-searches key under many appends: one request repeated, every
\* storage outcome, clears at any moment.
InitCache == InitWith({Absent}, {Absent})

NextCache ==
    \/ \E req \in CacheRequests : nSearches < MaxAppends /\ StartSearch(req)
    \/ \E reply \in CacheReplies : PostReply(reply)
    \/ \E ok \in BOOLEAN : SaveGetItem(ok)
    \/ \E ok \in BOOLEAN : SaveSetItem(ok)
    \/ \E ok \in BOOLEAN : Refresh(ok)
    \/ \E ok \in BOOLEAN : ClearRecentSearches(ok)

SpecCache == InitCache /\ [][NextCache]_vars

\* searchFlights called with every travel class.
NextCabin ==
    \/ \E req \in CabinRequests : nSearches < MaxSearches /\ StartSearch(req)
    \/ \E reply \in Replies : PostReply(reply)
    \/ \E ok \in BOOLEAN : SaveGetItem(ok)
    \/ \E ok \in BOOLEAN : SaveSetItem(ok)
    \/ \E ok \in BOOLEAN : Refresh(ok)

SpecCabin == InitCache /\ [][NextCabin]_vars

\* what the upstream answers in the form's specification: a success, a failure
FormReplies ==
    CacheReplies
    \cup {[ok |-> FALSE, envelope |-> [hasData |-> FALSE, data |-> <<>>, count |-> 0],
            error |-> [hasResponse |-> TRUE, status |-> 500,
                       upstreamMessage |-> Undefined, message |-> "Request failed"]]}

\* The search form: airports chosen from the search results, the popular list
\* and the map, swaps, and presses of the search button.
NextForm ==
    \/ \E type \in AirportTypes, airport \in AirportSearchResults :
          handleAirportSelect(type, airport)
    \/ \E type \in AirportTypes, airportCode \in DOMAIN popularAirportMap :
          handleAirportCodeSelect(type, airportCode)
    \/ \E origin \in MapAirports, destination \in MapAirports :
          SelectedAirportsEffect(origin, destination)
    \/ swapAirports
    \/ nSearches < MaxFormSearches /\ handleSearch
    \/ DismissAlert
    \/ \E reply \in FormReplies : PostReply(reply)
    \/ \E ok \in BOOLEAN : SaveGetItem(ok)
    \/ \E ok \in BOOLEAN : SaveSetItem(ok)
    \/ \E ok \in BOOLEAN : Refresh(ok)

SpecForm == InitCache /\ [][NextForm]_vars

\* The cache operations the screens issue: the FlightProvider mount effect
\* first, then HomeScreen mount effects and searches in any order, none waiting
\* for another.
InitMount == InitWith({Absent, Stringify(<<OldRecord>>)}, {Absent})

NextMount ==
    \/ nPopular = 0 /\ StartPopularRoutes("FlightProvider")
    \/ nPopular > 0 /\ nPopular < MaxPopularCalls /\ StartPopularRoutes("HomeScreen")
    \/ \E c \in PopCallers, ok \in BOOLEAN : PopularGetItem(c, ok)
    \/ \E c \in PopCallers, ok \in BOOLEAN : PopularSetItem(c, ok)
    \/ \E ok \in BOOLEAN : GetRecentSearches(ok)
    \/ \E req \in CacheRequests : nSearches < MaxSearches /\ StartSearch(req)
    \/ \E reply \in CacheReplies : PostReply(reply)
    \/ \E ok \in BOOLEAN : SaveGetItem(ok)
    \/ \E ok \in BOOLEAN : SaveSetItem(ok)
    \/ \E ok \in BOOLEAN : Refresh(ok)

SpecMount == InitMount /\ [][NextMount]_vars

\* Every operation of the service on the two keys, from every state the keys
\* may be found in.
InitStore ==
    InitWith({Absent, Corrupt, Stringify(<<OldRecord>>)},
             {Absent, Corrupt, Stringify(mockPopularRoutes)})

NextStore ==
    \/ \E req \in CacheRequests : nSearches < MaxSearches /\ StartSearch(req)
    \/ \E reply \in FormReplies : PostReply(reply)
    \/ \E ok \in BOOLEAN : SaveGetItem(ok)
    \/ \E ok \in BOOLEAN : SaveSetItem(ok)
    \/ \E ok \in BOOLEAN : Refresh(ok)
    \/ \E ok \in BOOLEAN : ClearRecentSearches(ok)
    \/ nPopular < MaxStoreCalls /\ StartPopularRoutes("FlightProvider")
    \/ \E ok \in BOOLEAN : PopularGetItem("FlightProvider", ok)
    \/ \E ok \in BOOLEAN : PopularSetItem("FlightProvider", ok)

SpecStore == InitStore /\ [][NextStore]_vars

\* The map screen loading its airports once, whatever the upstream answers.
NextNearby ==
    \/ StartLoadNearbyAirports
    \/ \E body \in NearbyBodies : loadNearbyAirports(body)
    \/ loadNearbyAirportsFails

SpecNearby == InitCache /\ [][NextNearby]_vars

\* Searches that fail and searches that succeed, next to the reads of the two
\* keys, from every state the keys may be found in.
NextFail ==
    \/ \E req \in SearchRequests : nSearches < MaxFormSearches /\ StartSearch(req)
    \/ \E reply \in Replies : PostReply(reply)
    \/ \E ok \in BOOLEAN : SaveGetItem(ok)
    \/ \E ok \in BOOLEAN : SaveSetItem(ok)
    \/ \E ok \in BOOLEAN : Refresh(ok)
    \/ \E ok \in BOOLEAN : GetRecentSearches(ok)
    \/ nPopular < MaxStoreCalls /\ StartPopularRoutes("HomeScreen")
    \/ \E ok \in BOOLEAN : PopularGetItem("HomeScreen", ok)
    \/ \E ok \in BOOLEAN : PopularSetItem("HomeScreen", ok)

SpecFail == InitStore /\ [][NextFail]_vars

\* the requests and the replies the overlapping calls are followed under
OverlapRequests == CacheRequests \cup {InitialSearchRequest}

OverlapReplies ==
    {reply \in Replies :
        \/ reply.ok /\ reply.envelope.hasData /\ reply.envelope.data # <<>>
        \/ ~reply.ok /\ reply.error.hasResponse /\ reply.error.status = 500
                     /\ reply.error.upstreamMessage = Undefined}

\* FlightProvider with a consumer that does not wait for isLoading: a call of
\* searchFlights may start while another is in flight.
NextOverlap ==
    \/ \E req \in OverlapRequests : nSearches < MaxOverlapSearches /\ StartSearch(req)
    \/ \E reply \in OverlapReplies : PostReply(reply)
    \/ \E ok \in BOOLEAN : SaveGetItem(ok)
    \/ \E ok \in BOOLEAN : SaveSetItem(ok)
    \/ \E ok \in BOOLEAN : Refresh(ok)
    \/ \E req \in OverlapRequests : nSearches < MaxOverlapSearches /\ SecondSearch(req)
    \/ \E reply \in OverlapReplies : SecondPostReply(reply)
    \/ \E ok \in BOOLEAN : SecondSaveGetItem(ok)
    \/ \E ok \in BOOLEAN : SecondSaveSetItem(ok)
    \/ \E ok \in BOOLEAN : SecondRefresh(ok)
    \/ ClearSearchResults

SpecOverlap == InitCache /\ [][NextOverlap]_vars

\* Every request of the transport client settles (axios times out after ten
\* seconds) and so does every operation of AsyncStorage.
SpecOverlapFair ==
    /\ SpecOverlap
    /\ WF_vars(\E reply \in OverlapReplies : PostReply(reply))
    /\ WF_vars(\E ok \in BOOLEAN : SaveGetItem(ok))
    /\ WF_vars(\E ok \in BOOLEAN : SaveSetItem(ok))
    /\ WF_vars(\E ok \in BOOLEAN : Refresh(ok))
    /\ WF_vars(\E reply \in OverlapReplies : SecondPostReply(reply))
    /\ WF_vars(\E ok \in BOOLEAN : SecondSaveGetItem(ok))
    /\ WF_vars(\E ok \in BOOLEAN : SecondSaveSetItem(ok))
    /\ WF_vars(\E ok \in BOOLEAN : SecondRefresh(ok))

\* what the upstream answers a search of the form with
NavReplies ==
    CacheReplies
    \cup {reply \in Replies : ~reply.ok /\ reply.error.upstreamMessage = Undefined}

\* From the form to the results and back.
NextNav ==
    \/ \E type \in AirportTypes, airport \in AirportSearchResults :
          FormOnTop /\ handleAirportSelect(type, airport)
    \/ FormOnTop /\ swapAirports
    \/ FormOnTop /\ nSearches < MaxNavSearches /\ handleSearch
    \/ FormOnTop /\ DismissAlert
    \/ \E reply \in NavReplies : PostReply(reply)
    \/ \E ok \in BOOLEAN : SaveGetItem(ok)
    \/ \E ok \in BOOLEAN : SaveSetItem(ok)
    \/ \E ok \in BOOLEAN : Refresh(ok)
    \/ HandleSearchReturns
    \/ LeaveResults

SpecNav == InitCache /\ [][NextNav]_vars

\* The popular-routes key from every state it may be found in.
InitPopular ==
    InitWith({Absent},
             {Absent, Corrupt, Stringify(mockPopularRoutes), Stringify(ModifiedRoutes)})

NextPopular ==
    \/ nPopular < MaxPopularCalls /\ StartPopularRoutes("FlightProvider")
    \/ \E ok \in BOOLEAN : PopularGetItem("FlightProvider", ok)
    \/ \E ok \in BOOLEAN : PopularSetItem("FlightProvider", ok)

SpecPopular == InitPopular /\ [][NextPopular]_vars

\* ------------------------------------------------------ backend-example.js

\* the one-minute buffer, in milliseconds
TokenBuffer == 60000

\* expires_in of the provider's token responses, in seconds
ExpiresIn == {30, 120}

\* faulty variant: no buffer
TokenExpiryNoBuffer(at, expires_in) == at + (expires_in * 1000)

\* Date.now() + (response.data.expires_in * 1000) - 60000
TokenExpiry(at, expires_in) == at + (expires_in * 1000) - TokenBuffer

Expiry(ms) == [isNull |-> FALSE, ms |-> ms]

\* faulty variant: the cache is never used
CachedTokenNeverValid == FALSE

\* accessToken && tokenExpiry && Date.now() < tokenExpiry
CachedTokenValid ==
    /\ accessToken # NullToken
    /\ ~tokenExpiry.isNull /\ tokenExpiry.ms # 0
    /\ serverNow < tokenExpiry.ms

\* an error of axios: error.response?.status
AxiosError(status) == [hasResponse |-> TRUE, status |-> status]
NoResponseError == [hasResponse |-> FALSE, status |-> 0]

\* what a request to the provider can fail with
UpstreamErrors == {AxiosError(400), AxiosError(401), AxiosError(429), AxiosError(500),
                   NoResponseError}

\* new Error('Failed to authenticate with Amadeus API'): no response on it
TokenError == NoResponseError

\* req.body of POST /flights/search, as far as the validation reads it
MkBody(origin, destination, departureDate) ==
    [originLocationCode |-> origin, destinationLocationCode |-> destination,
     departureDate |-> departureDate]

FlightBodies ==
    {MkBody("JFK", "LAX", "2025-07-01"), MkBody(Undefined, "LAX", "2025-07-01"),
     MkBody("JFK", "", "2025-07-01"), MkBody("JFK", "LAX", Undefined)}

\* req.query of GET /airports/search
AirportQueries == {[q |-> Undefined], [q |-> "J"], [q |-> "JFK"]}

\* query.length
QueryLength == [q \in {"", "J", "JFK"} |-> IF q = "" THEN 0 ELSE IF q = "J" THEN 1 ELSE 3]

EndpointRequests ==
    {[endpoint |-> "flights", params |-> b] : b \in FlightBodies}
    \cup {[endpoint |-> "airports", params |-> q] : q \in AirportQueries}

\* the validation of the two endpoints
InvalidParams(endpoint, params) ==
    IF endpoint = "flights"
    THEN \/ Falsy(params.originLocationCode)
         \/ Falsy(params.destinationLocationCode)
         \/ Falsy(params.departureDate)
    ELSE Falsy(params.q) \/ QueryLength[params.q] < 2

\* the status the catch block of the endpoint answers with
ErrorStatus(endpoint, err) ==
    IF endpoint = "flights" /\ err.hasResponse /\ err.status = 400 THEN 400
    ELSE IF endpoint = "flights" /\ err.hasResponse /\ err.status = 401 THEN 401
    ELSE 500

\* the handler once it has its token: validation, then the provider request
Validated(rec) ==
    IF InvalidParams(rec.endpoint, rec.params)
    THEN [rec EXCEPT !.pc = "done", !.status = 400]
    ELSE [rec EXCEPT !.pc = "upstream",
                     !.upstream = Append(@, IF rec.endpoint = "flights"
                                            THEN "flight-offers" ELSE "locations")]

\* a request arrives and its handler calls getAmadeusToken(): on a cached
\* token the handler goes on at once, otherwise the token is requested
ReceiveRequest(r, in) ==
    /\ nRequests < MaxRequests
    /\ requests[r].pc \in {"new", "done"}
    /\ \A h \in Handlers : h < r => requests[h].pc \notin {"new", "done"}
    /\ nRequests' = nRequests + 1
    /\ LET rec == [NewRequest EXCEPT !.endpoint = in.endpoint, !.params = in.params,
                                     !.at = serverNow]
       IN  requests' =
             [requests EXCEPT ![r] =
                IF CachedTokenValid
                THEN Validated([rec EXCEPT !.hit = TRUE, !.token = accessToken,
                                           !.cachedSince = receivedAt])
                ELSE [rec EXCEPT !.pc = "token", !.upstream = <<"token">>]]
    /\ UNCHANGED <<accessToken, tokenExpiry, serverNow, receivedAt, clientVars,
                   second, navVars, authVars>>

\* the provider issues a token for the token request of r
ProviderIssuesToken(r, expires_in) ==
    /\ requests[r].pc = "token"
    /\ requests' = [requests EXCEPT ![r].pc = "tokenReply",
                                    ![r].reply = [n |-> r, issuedAt |-> serverNow,
                                                  expires_in |-> expires_in]]
    /\ UNCHANGED <<accessToken, tokenExpiry, serverNow, receivedAt, nRequests, clientVars,
                   second, navVars, authVars>>

\* the token response reaches getAmadeusToken, which fills the cache and
\* returns the token to the handler
TokenResponse(r) ==
    /\ requests[r].pc = "tokenReply"
    /\ accessToken' = requests[r].reply
    /\ tokenExpiry' = Expiry(TokenExpiry(serverNow, requests[r].reply.expires_in))
    /\ receivedAt' = serverNow
    /\ requests' = [requests EXCEPT ![r] =
                       Validated([requests[r] EXCEPT !.token = requests[r].reply])]
    /\ UNCHANGED <<serverNow, nRequests, clientVars,
                   second, navVars, authVars>>

\* the token request fails: getAmadeusToken throws its own Error, which the
\* catch block of the handler answers
TokenRequestFails(r, err) ==
    /\ requests[r].pc = "token"
    /\ requests' = [requests EXCEPT ![r].pc = "done",
                                    ![r].tokenFailure = err,
                                    ![r].caught = TokenError,
                                    ![r].status = ErrorStatus(requests[r].endpoint,
                                                              TokenError)]
    /\ UNCHANGED <<accessToken, tokenExpiry, serverNow, receivedAt, nRequests, clientVars,
                   second, navVars, authVars>>

\* the provider answers the flight-offers or locations request: res.json
UpstreamResponse(r) ==
    /\ requests[r].pc = "upstream"
    /\ requests' = [requests EXCEPT ![r].pc = "done", ![r].status = 200]
    /\ UNCHANGED <<accessToken, tokenExpiry, serverNow, receivedAt, nRequests, clientVars,
                   second, navVars, authVars>>

\* the flight-offers or locations request fails
UpstreamFails(r, err) ==
    /\ requests[r].pc = "upstream"
    /\ requests' = [requests EXCEPT ![r].pc = "done",
                                    ![r].caught = err,
                                    ![r].status = ErrorStatus(requests[r].endpoint, err)]
    /\ UNCHANGED <<accessToken, tokenExpiry, serverNow, receivedAt, nRequests, clientVars,
                   second, navVars, authVars>>

\* half a minute passes
ServerTick ==
    /\ serverNow < 60000 + (MaxTicks * 30000)
    /\ serverNow' = serverNow + 30000
    /\ UNCHANGED <<accessToken, tokenExpiry, receivedAt, requests, nRequests, clientVars,
                   second, navVars, authVars>>

\* The endpoints under every input and every failure of the provider, at one
\* instant of the backend's clock.
NextBackend ==
    \/ \E r \in Handlers, in \in EndpointRequests : ReceiveRequest(r, in)
    \/ \E r \in Handlers, e \in ExpiresIn : ProviderIssuesToken(r, e)
    \/ \E r \in Handlers : TokenResponse(r)
    \/ \E r \in Handlers, err \in UpstreamErrors : TokenRequestFails(r, err)
    \/ \E r \in Handlers : UpstreamResponse(r)
    \/ \E r \in Handlers, err \in UpstreamErrors : UpstreamFails(r, err)

SpecBackend == InitCache /\ [][NextBackend]_vars

\* the requests the token cache is followed under
TokenRequests ==
    {[endpoint |-> "flights", params |-> MkBody("JFK", "LAX", "2025-07-01")],
     [endpoint |-> "airports", params |-> [q |-> "JFK"]]}

\* The token cache as time passes.
NextToken ==
    \/ \E r \in Handlers, in \in TokenRequests : ReceiveRequest(r, in)
    \/ \E r \in Handlers, e \in ExpiresIn : ProviderIssuesToken(r, e)
    \/ \E r \in Handlers : TokenResponse(r)
    \/ \E r \in Handlers : TokenRequestFails(r, NoResponseError)
    \/ \E r \in Handlers : UpstreamResponse(r)
    \/ ServerTick

SpecToken == InitCache /\ [][NextToken]_vars

\* ------------------------------------------------------------ AuthService

nonAuthVars == <<clientVars, backendVars, second, navVars>>

\* !!this.token && !!this.user
isAuthenticated == token \notin {Null, ""} /\ user # Null

getToken == token

getCurrentUser == user

\* `Bearer ${token}`
Bearer(str) == <<"Bearer ", str>>

\* response.data of POST /auth/login and POST /auth/register
AuthResponses ==
    {[user |-> "alice", access_token |-> "token-A"],
     [user |-> "bob", access_token |-> "token-B"]}

\* storedToken && storedUser, for one of them
ItemTruthy(item) == item.tag # "absent" /\ item.val # ""

\* the storage AuthService may find: nothing, what an earlier login left, a
\* user key that does not parse
AuthStorages ==
    {[k \in AuthKeys |-> NoItem],
     [k \in AuthKeys |-> IF k = TOKEN_KEY THEN Text("token-A") ELSE Json("alice")],
     [k \in AuthKeys |-> IF k = TOKEN_KEY THEN Text("token-A") ELSE NotJson]}

\* a method is called; a call of it and the storage writes of its last call
\* are over
StartAuthCall(m) ==
    /\ nAuthCalls < MaxAuthCalls
    /\ authCalls[m].pc = "idle"
    /\ authCalls[m].tokenItem # "pending" /\ authCalls[m].userItem # "pending"
    /\ nAuthCalls' = nAuthCalls + 1
    /\ authCalls' =
          [authCalls EXCEPT ![m] =
             [NoAuthCall EXCEPT
                !.pc = IF m = "initializeAuth" THEN "getItems"
                       ELSE IF m = "logout" THEN "multiRemove" ELSE "post",
                !.tokenItem = IF m = "initializeAuth" THEN "pending" ELSE "none",
                !.userItem = IF m = "initializeAuth" THEN "pending" ELSE "none",
                !.before = authStorage]]
    /\ UNCHANGED <<token, user, authorization, authStorage, nonAuthVars>>

\* initializeAuth once both reads have resolved
InitializeAuthContinues(call) ==
    IF ItemTruthy(call.storedToken) /\ ItemTruthy(call.storedUser)
    THEN /\ token' = call.storedToken.val
         /\ IF call.storedUser.tag = "json"
            THEN /\ user' = call.storedUser.val
                 /\ authorization' = Bearer(call.storedToken.val)
                 /\ authCalls' = [authCalls EXCEPT !["initializeAuth"] =
                                     [call EXCEPT !.pc = "idle", !.returned = "true"]]
            ELSE /\ authCalls' = [authCalls EXCEPT !["initializeAuth"] =
                                     [call EXCEPT !.pc = "idle", !.returned = "false"]]
                 /\ UNCHANGED <<user, authorization>>
    ELSE /\ authCalls' = [authCalls EXCEPT !["initializeAuth"] =
                             [call EXCEPT !.pc = "idle", !.returned = "false"]]
         /\ UNCHANGED <<token, user, authorization>>

\* one getItem of initializeAuth's Promise.all settles: a rejection ends the
\* call in its catch block, the second value to arrive lets the call go on
InitializeAuthGetItem(key, ok) ==
    /\ authCalls["initializeAuth"].pc = "getItems"
    /\ IF key = TOKEN_KEY
       THEN authCalls["initializeAuth"].tokenItem = "pending"
       ELSE authCalls["initializeAuth"].userItem = "pending"
    /\ LET call == authCalls["initializeAuth"]
           read == IF key = TOKEN_KEY
                   THEN [call EXCEPT !.tokenItem = "done",
                                     !.storedToken = authStorage[TOKEN_KEY]]
                   ELSE [call EXCEPT !.userItem = "done",
                                     !.storedUser = authStorage[USER_KEY]]
       IN  IF ~ok
           THEN /\ authCalls' = [authCalls EXCEPT !["initializeAuth"] =
                                    [call EXCEPT !.pc = "idle", !.tokenItem = "none",
                                                 !.userItem = "none",
                                                 !.returned = "false"]]
                /\ UNCHANGED <<token, user, authorization>>
           ELSE IF read.tokenItem = "done" /\ read.userItem = "done"
           THEN InitializeAuthContinues(read)
           ELSE /\ authCalls' = [authCalls EXCEPT !["initializeAuth"] = read]
                /\ UNCHANGED <<token, user, authorization>>
    /\ UNCHANGED <<authStorage, nAuthCalls, nonAuthVars>>

\* api.post of login or register settles: with a response setAuthData starts
\* its two setItem, with an error the method throws
AuthPost(m, ok, resp) ==
    /\ m \in {"login", "register"}
    /\ authCalls[m].pc = "post"
    /\ authCalls' =
          [authCalls EXCEPT ![m] =
             IF ok
             THEN [@ EXCEPT !.pc = "setItems", !.access_token = resp.access_token,
                            !.user = resp.user, !.tokenItem = "pending",
                            !.userItem = "pending"]
             ELSE [@ EXCEPT !.pc = "idle", !.returned = "failed"]]
    /\ UNCHANGED <<token, user, authorization, authStorage, nAuthCalls, nonAuthVars>>

\* One setItem of setAuthData's Promise.all settles.  The first rejection
\* makes setAuthData, and with it the method, throw, whatever becomes of the
\* other setItem; the second success lets setAuthData set token, user and
\* header.
AuthSetItem(m, key, ok) ==
    /\ m \in {"login", "register"}
    /\ IF key = TOKEN_KEY
       THEN authCalls[m].tokenItem = "pending"
       ELSE authCalls[m].userItem = "pending"
    /\ authStorage' =
          IF ok
          THEN [authStorage EXCEPT ![key] = IF key = TOKEN_KEY
                                            THEN Text(authCalls[m].access_token)
                                            ELSE Json(authCalls[m].user)]
          ELSE authStorage
    /\ LET call == authCalls[m]
           settled == IF key = TOKEN_KEY
                      THEN [call EXCEPT !.tokenItem = IF ok THEN "done" ELSE "rejected"]
                      ELSE [call EXCEPT !.userItem = IF ok THEN "done" ELSE "rejected"]
       IN  IF call.pc # "setItems"
           THEN /\ authCalls' = [authCalls EXCEPT ![m] = settled]
                /\ UNCHANGED <<token, user, authorization>>
           ELSE IF ~ok
           THEN /\ authCalls' = [authCalls EXCEPT ![m] =
                                    [settled EXCEPT !.pc = "idle", !.returned = "failed"]]
                /\ UNCHANGED <<token, user, authorization>>
           ELSE IF settled.tokenItem = "done" /\ settled.userItem = "done"
           THEN /\ authCalls' = [authCalls EXCEPT ![m] =
                                    [settled EXCEPT !.pc = "idle", !.returned = "ok"]]
                /\ token' = call.access_token
                /\ user' = call.user
                /\ authorization' = Bearer(call.access_token)
           ELSE /\ authCalls' = [authCalls EXCEPT ![m] = settled]
                /\ UNCHANGED <<token, user, authorization>>
    /\ UNCHANGED <<nAuthCalls, nonAuthVars>>

\* multiRemove of logout settles: resolved, both keys are gone and token, user
\* and header are dropped; rejected, the catch block logs and logout returns
LogoutMultiRemove(ok) ==
    /\ authCalls["logout"].pc = "multiRemove"
    /\ authCalls' = [authCalls EXCEPT !["logout"].pc = "idle",
                                      !["logout"].returned = "returned"]
    /\ IF ok
       THEN /\ authStorage' = [k \in AuthKeys |-> NoItem]
            /\ token' = Null
            /\ user' = Null
            /\ authorization' = NoHeader
       ELSE UNCHANGED <<token, user, authorization, authStorage>>
    /\ UNCHANGED <<nAuthCalls, nonAuthVars>>

InitAuth == InitOver({Absent}, {Absent}, AuthStorages)

NextAuth ==
    \/ \E m \in AuthMethods : StartAuthCall(m)
    \/ \E key \in AuthKeys, ok \in BOOLEAN : InitializeAuthGetItem(key, ok)
    \/ \E m \in {"login", "register"}, ok \in BOOLEAN, resp \in AuthResponses :
          AuthPost(m, ok, resp)
    \/ \E m \in {"login", "register"}, key \in AuthKeys, ok \in BOOLEAN :
          AuthSetItem(m, key, ok)
    \/ \E ok \in BOOLEAN : LogoutMultiRemove(ok)

SpecAuth == InitAuth /\ [][NextAuth]_vars

\* ------------------------------------------------------------------ claims

RecentKey == storage[RECENT_SEARCHES_KEY]

\* the n newest entries of a history, newest first
NewestFirst(history, n) ==
    [i \in 1..(IF Len(history) < n THEN Len(history) ELSE n) |->
        history[Len(history) - i + 1]]

\* C1: from an empty recent-searches key, after any number of successful
\* appends with no clear falling into one, the key holds exactly the (at most
\* 10) most recently appended records, newest first, and never more than 10.
C1_LastTenNewestFirst ==
    /\ Len(RecentKey.val) <= 10
    /\ fromEmpty =>
         RecentKey = IF appended = <<>> THEN Absent
                     ELSE Stringify(NewestFirst(appended, 10))

\* C1 witness: an eleventh append has pushed the oldest record out.
C1_Witness ==
    /\ fromEmpty
    /\ Len(appended) = 11
    /\ Len(RecentKey.val) = 10
    /\ RecentKey.val[10] = appended[2]

\* C2 (as stated): when saveRecentSearch reads corrupt JSON it treats the list
\* as empty, so that once it has ended the key holds exactly the new record.
C2_CorruptTreatedAsEmpty ==
    (pc = "refresh" /\ stored = Corrupt /\ saveOutcome # "read rejected")
        => RecentKey = Stringify(<<recentSearch>>)

ErrorKind(msg) ==
    CASE msg = "Authentication required. Please login again." -> "AuthRequired"
      [] msg = "Flight search failed: Invalid departure date format" -> "InvalidDate"
      [] msg \in {"Flight search failed: Origin and destination airport codes are required",
                  "Flight search failed: Origin and destination entity IDs are required. Please select airports from the search results."}
           -> "MissingField"
      [] OTHER -> "SearchFailed"

Searched == nSearches > 0

MissingEntityId(req) ==
    req.originEntityId \in {Undefined, ""} \/ req.destinationEntityId \in {Undefined, ""}

\* C5 (amended): a search whose request lacks an entity identifier fails and
\* POSTs nothing; it fails with MissingField when the departure date parses
\* and with InvalidDate when it does not.
C5_MissingEntityIdFails ==
    (Searched /\ MissingEntityId(cur))
        => /\ result.status = "rejected"
           /\ posted = <<>>
           /\ ErrorKind(result.message) =
                IF cur.departureDate \in ParsableDates THEN "MissingField" ELSE "InvalidDate"

\* C5 witness: both codes and a good date, no entity identifier: MissingField.
C5_Witness ==
    /\ Searched
    /\ cur.originLocationCode = "JFK" /\ cur.destinationLocationCode = "LAX"
    /\ cur.originEntityId = Undefined
    /\ cur.departureDate = "2025-07-01"
    /\ result.status = "rejected"
    /\ ErrorKind(result.message) = "MissingField"
    /\ posted = <<>>

\* C5 (as stated): a search whose request lacks an entity identifier fails
\* with MissingField, whatever its departure date, and POSTs nothing.
C5_MissingEntityIdIsMissingField ==
    (Searched /\ MissingEntityId(cur))
        => /\ result.status = "rejected"
           /\ posted = <<>>
           /\ ErrorKind(result.message) = "MissingField"

\* C6: the step that starts a search whose departure date does not parse ends
\* the call: it is rejected with InvalidDate, nothing is POSTed and the store
\* is left as it was.
C6_InvalidDepartureDate ==
    [][(nSearches' = nSearches + 1 /\ cur'.departureDate \notin ParsableDates)
         => /\ result'.status = "rejected"
            /\ ErrorKind(result'.message) = "InvalidDate"
            /\ posted' = <<>>
            /\ storage' = storage
            /\ appended' = appended
            /\ pc' = "idle"]_vars

\* C6 witness: a request complete but for its departure date was rejected.
C6_Witness ==
    /\ Searched
    /\ cur.departureDate = "not-a-date"
    /\ ~MissingEntityId(cur)
    /\ cur.originLocationCode = "JFK" /\ cur.destinationLocationCode = "LAX"
    /\ result.status = "rejected"
    /\ ErrorKind(result.message) = "InvalidDate"
    /\ posted = <<>>

WellFormed(req) ==
    /\ req.originLocationCode \notin {Undefined, ""}
    /\ req.destinationLocationCode \notin {Undefined, ""}
    /\ req.originLocationCode # req.destinationLocationCode
    /\ ~MissingEntityId(req)
    /\ req.departureDate \in ParsableDates

\* C7: for a request with both codes, both entity identifiers, origin #
\* destination and a parsable departure date, one provider request is POSTed;
\* it echoes both entity identifiers, and it has no returnDate field exactly
\* when the return date is absent, blank or unparsable; such a return date
\* never fails the validation.
C7_ProviderRequest ==
    (Searched /\ WellFormed(cur))
        => /\ Len(posted) = 1
           /\ posted[1].originEntityId = cur.originEntityId
           /\ posted[1].destinationEntityId = cur.destinationEntityId
           /\ posted[1].originEntityId # "" /\ posted[1].destinationEntityId # ""
           /\ ("returnDate" \notin DOMAIN posted[1])
                <=> \/ cur.returnDate \in {Undefined, "", "  "}
                    \/ cur.returnDate \notin ParsableDates
           /\ "returnDate" \in DOMAIN posted[1] => posted[1].returnDate = cur.returnDate
           /\ result.status = "rejected"
                => ErrorKind(result.message) \in {"AuthRequired", "SearchFailed"}

\* C7 witness: an unparsable return date was dropped and the search went on.
C7_Witness ==
    /\ Searched /\ WellFormed(cur)
    /\ cur.returnDate = "not-a-date"
    /\ Len(posted) = 1
    /\ "returnDate" \notin DOMAIN posted[1]
    /\ result.status = "resolved"

\* C8: an upstream 401 fails the search with AuthRequired, and nothing else
\* does; any other status or a transport failure fails it with SearchFailed,
\* whose message carries the upstream's message when the response has one and
\* the transport-level message otherwise.
C8_ErrorMapping ==
    (result.status = "rejected" /\ posted # <<>>)
        => IF error.hasResponse /\ error.status = 401
           THEN ErrorKind(result.message) = "AuthRequired"
           ELSE /\ ErrorKind(result.message) = "SearchFailed"
                /\ result.message # "Authentication required. Please login again."
                /\ result.message =
                     "Flight search failed: "
                     \o (IF error.hasResponse /\ error.upstreamMessage # Undefined
                         THEN error.upstreamMessage
                         ELSE error.message)

\* C8 witness: a 500 with a message of the upstream's.
C8_Witness ==
    /\ result.status = "rejected"
    /\ error.hasResponse /\ error.status = 500
    /\ error.upstreamMessage = "Upstream is down"
    /\ result.message = "Flight search failed: Upstream is down"

\* C9: once the upstream has answered with a success envelope the search is
\* not rejected; the response it resolves with holds the envelope's data
\* array (an empty one when the envelope has no data field) and counts
\* that array's length, not what the upstream reports.
C9_CountIsLength ==
    /\ pc \in {"saveGetItem", "saveSetItem"} => result.status = "pending"
    /\ pc = "refresh"
         => /\ result.status = "resolved"
            /\ result.data = (IF response.hasData THEN response.data ELSE <<>>)
            /\ result.count = Len(result.data)
            /\ ~response.hasData => (result.data = <<>> /\ result.count = 0)

\* C9 witness: an envelope with no data field gave an empty result, count 0.
C9_Witness ==
    /\ pc = "refresh"
    /\ ~response.hasData
    /\ response.count # 0
    /\ result.status = "resolved"
    /\ result.count = 0

\* the record of a request: its origin, destination, dates and passenger total
IsRecordOf(r, req) ==
    /\ r.origin = req.originLocationCode
    /\ r.destination = req.destinationLocationCode
    /\ r.departureDate = req.departureDate
    /\ r.returnDate = req.returnDate
    /\ r.passengers = req.adults
                      + (IF req.children = NoCount THEN 0 ELSE req.children)
                      + (IF req.infants = NoCount THEN 0 ELSE req.infants)

\* searchFlights returns a SearchResponse in this step
ReturnsResponse == result.status = "pending" /\ result'.status = "resolved"

StoredListOrEmpty(held, ok) ==
    IF ok /\ held.tag = "list" THEN held.val ELSE <<>>

\* C11: every getRecentSearches, called on its own or at the end of a search,
\* returns: it gives the empty list when the key is absent, holds unparsable
\* text or the read is rejected, and otherwise the stored list as stored; it
\* leaves the store alone, and the provider shows what it returned.
C11_GetRecentSearchesFailsSoft ==
    [][\A ok \in BOOLEAN :
         (GetRecentSearches(ok) \/ Refresh(ok))
            => /\ lastGet'.value = StoredListOrEmpty(RecentKey, ok)
               /\ (~ok \/ RecentKey \in {Absent, Corrupt}) => lastGet'.value = <<>>
               /\ recentSearches' = lastGet'.value
               /\ storage' = storage]_vars

\* C11 witness: a read of a key holding two records returned both, in order,
\* the newer first.
C11_Witness ==
    /\ lastGet.after # "nocall"
    /\ Len(lastGet.value) = 2
    /\ lastGet.value = RecentKey.val
    /\ lastGet.value[2] = OldRecord

CabinClasses == {"economy", "premium_economy", "business", "first"}

\* the cabin class a travel class stands for once its case is set aside
CabinClassOf(travelClass) ==
    IF travelClass \in {"PREMIUM_ECONOMY", "premium_economy"} THEN "premium_economy"
    ELSE IF travelClass \in {"BUSINESS", "business"} THEN "business"
    ELSE IF travelClass \in {"FIRST", "First"} THEN "first"
    ELSE "economy"

\* C12 (amended): the cabinClass of the provider request is economy,
\* premium_economy, business or first when the travel class, in whatever
\* letter case, spells ECONOMY, PREMIUM_ECONOMY, BUSINESS or FIRST, and economy
\* for every other value and for an absent one; it is always one of the four.
C12_CabinClassIgnoresCase ==
    posted # <<>>
        => /\ posted[1].cabinClass = CabinClassOf(cur.travelClass)
           /\ posted[1].cabinClass \in CabinClasses

\* C12 witness: a lower-case travel class was sent as its own cabin class.
C12_Witness ==
    /\ posted # <<>>
    /\ cur.travelClass = "business"
    /\ posted[1].cabinClass = "business"

\* C12 (as stated): every travel class other than the four upper-case names
\* is sent as economy.
C12_OnlyUpperCaseNames ==
    posted # <<>>
        => posted[1].cabinClass =
             (CASE cur.travelClass = "PREMIUM_ECONOMY" -> "premium_economy"
                [] cur.travelClass = "BUSINESS" -> "business"
                [] cur.travelClass = "FIRST" -> "first"
                [] OTHER -> "economy")

\* C13: no POST /flights/search goes out with originSkyId equal to
\* destinationSkyId, whatever airports were selected and swapped before the
\* search button was pressed.
C13_OriginIsNotDestination ==
    posted # <<>> => posted[1].originSkyId # posted[1].destinationSkyId

\* C13 witness: a search went out after origin and destination were swapped.
C13_Witness ==
    /\ Len(posted) = 1
    /\ posted[1].originSkyId = "LAX"
    /\ posted[1].destinationSkyId = "JFK"
    /\ posted[1].originEntityId = "95565058"

\* every airport the form can be given
FormAirports ==
    AirportSearchResults \cup MapAirports
    \cup {popularAirportMap[c] : c \in DOMAIN popularAirportMap}

\* the entity identifiers the airports of a code come with
EntityIdsOf(code) ==
    {AirportEntityId(airport) : airport \in {a \in FormAirports : AirportCode(a) = code}}

\* C14 (as stated): in every state of the form, the entity identifier on each
\* side is that of the airport whose code is on that side.
C14_EntityIdsFollowCodes ==
    /\ searchRequest.originLocationCode # ""
         => searchRequest.originEntityId \in EntityIdsOf(searchRequest.originLocationCode)
    /\ searchRequest.destinationLocationCode # ""
         => searchRequest.destinationEntityId
               \in EntityIdsOf(searchRequest.destinationLocationCode)

PopularKey == storage[POPULAR_ROUTES_KEY]

\* C15: a call of searchFlights POSTs at most once, and only in the step that
\* starts it; the step that settles the POST ends the call or goes on to the
\* save, without another POST.  A key is written only by the step that settles
\* the one setItem of saveRecentSearch or of getPopularRoutes, and that step
\* ends the operation whether the write was accepted or not.  The step in
\* which a search fails ends the call, with the failure in searchError.
C15_NoRetries ==
    [][/\ Len(posted') <= 1
       /\ posted' # posted => nSearches' = nSearches + 1
       /\ (pc = "post" /\ pc' # "post")
            => (pc' \in {"saveGetItem", "idle"} /\ posted' = posted)
       /\ (pc = "post" /\ error' # error)
            => /\ pc' = "idle"
               /\ result'.status = "rejected"
               /\ searchError' = result'.message
               /\ ~isLoading'
       /\ RecentKey' \notin {RecentKey, Absent}
            => (pc = "saveSetItem" /\ pc' = "refresh")
       /\ (pc = "saveSetItem" /\ pc' # "saveSetItem") => pc' = "refresh"
       /\ PopularKey' # PopularKey
            => \E c \in PopCallers : popPc[c] = "setItem" /\ popPc'[c] = "idle"
       /\ \A c \in PopCallers :
            (popPc[c] = "setItem" /\ popPc'[c] # "setItem") => popPc'[c] = "idle"]_vars

\* C15 witness: a search failed upstream after its one POST and is over, and a
\* getPopularRoutes whose seed write was rejected has returned.
C15_Witness ==
    /\ pc = "idle"
    /\ result.status = "rejected"
    /\ Len(posted) = 1
    /\ ~isLoading
    /\ popLog # <<>>
    /\ popLog[Len(popLog)].wrote /\ popLog[Len(popLog)].rejected
    /\ PopularKey = Absent

\* the cache-mutating operations in flight: a saveRecentSearch between its
\* read and the end of its write, and every getPopularRoutes awaiting its
\* seed write
MutatorsInFlight ==
    (IF pc \in {"saveGetItem", "saveSetItem"} THEN 1 ELSE 0)
    + Cardinality({c \in PopCallers : popPc[c] = "setItem"})

HasNearbyUnderData(body) == Get(Get(body, "data"), "nearby").t = "array"

\* C18 (as stated): once a body {data: {nearby: [a1..an]}} has been loaded,
\* the map screen lists n airports, one for each entry and in their order.
C18_OneAirportPerNearbyEntry ==
    (nearbyPc = "done" /\ HasNearbyUnderData(nearbyBody))
        => LET nearby == Get(Get(nearbyBody, "data"), "nearby").v
           IN  /\ Len(nearbyAirports) = Len(nearby)
               /\ \A i \in 1..Len(nearby) :
                     nearbyAirports[i].entityId = nearby[i].entityId

\* C19: when no search is in flight, flightOffers is empty or is the data of
\* the response the last search started resolved with; and once a response
\* has arrived flightOffers is empty or the upstream's data array as it came,
\* whatever was on display before.
C19_OffersReplacedWholesale ==
    /\ pc = "idle"
         => \/ flightOffers = <<>>
            \/ result.status = "resolved" /\ flightOffers = result.data
    /\ pc = "refresh"
         => \/ flightOffers = <<>>
            \/ response.hasData /\ flightOffers = response.data

\* C19 witness: after a second search the offers on display are its own, in
\* the order the upstream gave them.
C19_Witness ==
    /\ pc = "idle"
    /\ nSearches = 2
    /\ result.status = "resolved"
    /\ flightOffers = <<"offer-B", "offer-A">>

\* a search fails in this step: in the validation or when the POST settles
SearchFails ==
    /\ result'.status = "rejected"
    /\ nSearches' = nSearches + 1 \/ (pc = "post" /\ pc' # "post")

\* C20: the step in which a search fails leaves the failure's message in
\* searchError, no offers, isLoading false and the search button enabled, and
\* ends the call; nothing is POSTed again, a POST going out only in a step
\* that starts a search.
C20_FailedSearchCanBeRetried ==
    [][/\ SearchFails
            => /\ searchError' = result'.message
               /\ searchError' # NoError
               /\ ErrorKind(searchError')
                     \in {"InvalidDate", "MissingField", "AuthRequired", "SearchFailed"}
               /\ flightOffers' = <<>>
               /\ ~isLoading'
               /\ ~SearchButtonDisabled'
               /\ pc' = "idle"
               /\ pc = "post" => posted' = posted
       /\ posted' # posted => nSearches' = nSearches + 1]_vars

\* C20 witness: a second search failed with a 401 and the form is free again.
C20_Witness ==
    /\ nSearches = 2
    /\ pc = "idle"
    /\ result.status = "rejected"
    /\ error.hasResponse /\ error.status = 401
    /\ searchError = "Authentication required. Please login again."
    /\ flightOffers = <<>>
    /\ ~isLoading


\* when the provider stops honouring a token: issue time + expires_in
UpstreamExpiry(issued) == issued.issuedAt + (issued.expires_in * 1000)

\* the handler h has just received a request and called getAmadeusToken()
Received(h) == nRequests' = nRequests + 1 /\ requests'[h] # requests[h]

\* C21 as stated: getAmadeusToken returns the cached token only while the
\* time is more than 60 seconds before the token's upstream expiry (issue time
\* + expires_in), so never at or after that expiry.
C21_CachedOnlyBeforeUpstreamExpiry ==
    \A h \in Handlers :
        requests[h].hit =>
            requests[h].at + 60000 < UpstreamExpiry(requests[h].token)

\* C21, amended: the minute is counted from the moment the token response is
\* handled, not from the issue of the token.  getAmadeusToken returns the
\* cached token, asking the provider nothing, exactly while a token is cached
\* and the time is more than 60 seconds before (time the response was handled
\* + expires_in); otherwise it requests a new token.
C21_CachedUntilBufferBeforeLocalExpiry ==
    [][\A h \in Handlers :
          Received(h) =>
              /\ requests'[h].hit <=>
                    /\ accessToken # NullToken
                    /\ serverNow + 60000 < receivedAt + (accessToken.expires_in * 1000)
              /\ requests'[h].hit =>
                    /\ requests'[h].token = accessToken
                    /\ "token" \notin {requests'[h].upstream[i] :
                                         i \in DOMAIN requests'[h].upstream}
              /\ ~requests'[h].hit =>
                    /\ requests'[h].pc = "token"
                    /\ requests'[h].upstream = <<"token">>]_vars

\* a cached token is returned some time after it was cached, and at another
\* time one is requested although a token is cached
C21_Witness ==
    /\ \E h \in Handlers :
          requests[h].hit /\ requests[h].at > requests[h].cachedSince
    /\ \E h \in Handlers :
          /\ requests[h].pc = "token"
          /\ accessToken # NullToken
          /\ accessToken.expires_in = 120


\* the token request of the handler h failed
TokenFailed(h) ==
    /\ requests[h].pc = "done"
    /\ requests[h].upstream = <<"token">>
    /\ requests[h].token = NullToken

\* the handler h made the request named call to the provider
Called(h, call) ==
    call \in {requests[h].upstream[i] : i \in DOMAIN requests[h].upstream}

\* what the provider failed the handler h with
ProviderFailure(h) ==
    IF TokenFailed(h) THEN requests[h].tokenFailure ELSE requests[h].caught

\* C22: every POST /flights/search whose body lacks originLocationCode,
\* destinationLocationCode or departureDate is answered 400 and makes no
\* flight-offers request; an upstream 400 is answered 400, an upstream 401 is
\* answered 401, and any other failure 500.
C22_InvalidIs400AndUpstreamStatusKept ==
    \A h \in Handlers :
        requests[h].pc = "done" /\ requests[h].endpoint = "flights" =>
            IF InvalidParams("flights", requests[h].params)
            THEN requests[h].status = 400 /\ ~Called(h, "flight-offers")
            ELSE requests[h].status # 200 =>
                    requests[h].status =
                        IF ProviderFailure(h) = AxiosError(400) THEN 400
                        ELSE IF ProviderFailure(h) = AxiosError(401) THEN 401
                        ELSE 500


\* a step of getRecentSearches or of getPopularRoutes
ReadsOfTheKeys ==
    \/ \E ok \in BOOLEAN : GetRecentSearches(ok) \/ Refresh(ok)
    \/ \E c \in PopCallers :
          \/ StartPopularRoutes(c)
          \/ \E ok \in BOOLEAN : PopularGetItem(c, ok) \/ PopularSetItem(c, ok)

\* C23: a search that fails, by validation or by an upstream or transport
\* error, leaves what is stored under the recent-searches key as it was
\* before the call: neither the step that starts a search nor the step in
\* which it fails changes the key, the key is written only by the save of a
\* search whose POST succeeded, and no step of getRecentSearches or of
\* getPopularRoutes changes it.
C23_FailedSearchLeavesKey ==
    [][/\ SearchFails => RecentKey' = RecentKey
       /\ nSearches' # nSearches => RecentKey' = RecentKey
       /\ (pc = "post" /\ pc' # "post") => RecentKey' = RecentKey
       /\ RecentKey' # RecentKey
            => /\ pc = "saveSetItem"
               /\ error = JsError("")
               /\ result'.status = "resolved"
       /\ ReadsOfTheKeys => RecentKey' = RecentKey]_vars

\* C23 witness: over a key that holds a list, a search has failed upstream
\* after its POST and a getPopularRoutes has written its seed; the list is the
\* one the key started with.
C23_Witness ==
    /\ nSearches = 1
    /\ pc = "idle"
    /\ result.status = "rejected"
    /\ ErrorKind(searchError) \in {"AuthRequired", "SearchFailed"}
    /\ Len(posted) = 1
    /\ RecentKey = Stringify(<<OldRecord>>)
    /\ PopularKey = Stringify(mockPopularRoutes)
    /\ Len(popLog) > 0 /\ popLog[Len(popLog)].wrote


\* a call of FlightProvider.searchFlights is in flight
SearchInFlight == pc # "idle" \/ second.pc # "idle"

\* no call in flight has shared the provider with another call: no call was
\* ever started during another, or the last such call is over and a search
\* has been started since
NoOverlap ==
    \/ ~second.started
    \/ second.pc = "idle" /\ nSearches > second.doneAt

\* C24 as stated: isLoading is true in every state in which a searchFlights
\* call is in flight and false in every state in which none is, a second
\* search started before the first has completed included.
C24_LoadingIffInFlight == isLoading <=> SearchInFlight

\* C24, amended: isLoading is one flag, set by the start of every call and
\* cleared by the end of every call.  It is false whenever no call is in
\* flight and true while a call is in flight that shares the provider with no
\* other; the step that ends a call leaves it false, whether or not another
\* call is still in flight; and every call started comes to its end.
C24_LoadingIsOneFlag ==
    /\ [](~SearchInFlight => ~isLoading)
    /\ [](SearchInFlight /\ NoOverlap => isLoading)
    /\ [][(pc # "idle" /\ pc' = "idle") \/ (second.pc # "idle" /\ second'.pc = "idle")
            => ~isLoading']_vars
    /\ (pc # "idle") ~> (pc = "idle")
    /\ (second.pc # "idle") ~> (second.pc = "idle")

\* C24 witness: the call started second is over and the first one is still
\* in flight, with isLoading false.
C24_Witness ==
    /\ pc = "saveGetItem"
    /\ second.started /\ second.pc = "idle"
    /\ ~isLoading


\* C25 as stated: in every state in which no search is in flight, a non-null
\* searchError implies an empty flightOffers list, under any interleaving of
\* searchFlights and clearSearchResults.
C25_ErrorMeansNoOffers ==
    ~SearchInFlight /\ searchError # NoError => flightOffers = <<>>

\* C25, amended: in every state in which no search is in flight and the last
\* search ran without another call of searchFlights in flight beside it, a
\* non-null searchError implies an empty flightOffers list, wherever
\* clearSearchResults falls.
C25_ErrorMeansNoOffersUnlessOverlapped ==
    ~SearchInFlight /\ NoOverlap /\ searchError # NoError => flightOffers = <<>>

\* C25 witness: after two calls that overlapped, a search that ran alone has
\* failed.
C25_Witness ==
    /\ ~SearchInFlight
    /\ second.started /\ NoOverlap
    /\ searchError # NoError
    /\ result.status = "rejected"


\* C26: handleSearch navigates to FlightResults only when the search
\* succeeded; when the search fails it shows the 'Search Error' alert and
\* stays on the search screen; when a required field is missing or origin
\* equals destination it neither searches nor navigates.
C26_NavigatesOnlyOnSuccess ==
    [][/\ (screen = "FlightSearch" /\ screen' = "FlightResults")
            => result.status = "resolved"
       /\ (navigated' # navigated /\ result.status = "rejected")
            => (alert' = "Search Error" /\ screen' = "FlightSearch")
       /\ (alert = NoAlert /\ alert' \in {"Missing Information", "Invalid Route"})
            => (nSearches' = nSearches /\ posted' = posted /\ screen' = screen)]_vars


\* the call of the method m returns in this step
AuthCallReturns(m) == authCalls[m].pc # "idle" /\ authCalls'[m].pc = "idle"

\* C27: after logout() has returned, isAuthenticated() is false, getToken()
\* and getCurrentUser() are null, the transport client has no default
\* Authorization header and the token and user keys are absent from storage,
\* whatever the outcome of the storage removal.
C27_LogoutAlwaysClears ==
    [][AuthCallReturns("logout")
          => /\ ~isAuthenticated'
             /\ getToken' = Null
             /\ getCurrentUser' = Null
             /\ authorization' = NoHeader
             /\ \A k \in AuthKeys : authStorage'[k] = NoItem]_vars

\* no other call of AuthService, and no storage write of one, is under way
OnlyCall(m) ==
    \A o \in AuthMethods \ {m} :
        /\ authCalls[o].pc = "idle"
        /\ authCalls[o].tokenItem # "pending" /\ authCalls[o].userItem # "pending"

\* C28: under any interleaving of initializeAuth, login, register and logout,
\* isAuthenticated() is true only if the default Authorization header is
\* 'Bearer ' followed by the in-memory token and the same token and user are
\* stored under the token and user keys; a failed login or register leaves
\* token, user, header and storage unchanged.
C28_AuthenticatedMeansPersisted ==
    /\ [](isAuthenticated
            => /\ authorization = Bearer(token)
               /\ authStorage[TOKEN_KEY] = Text(token)
               /\ authStorage[USER_KEY] = Json(user))
    /\ [][\A m \in {"login", "register"} :
            (AuthCallReturns(m) /\ authCalls'[m].returned = "failed")
               => /\ UNCHANGED <<token, user, authorization>>
                  /\ OnlyCall(m) => authStorage' = authCalls[m].before]_vars


\* the handlers whose token request is with the provider or on its way back
FetchingToken == {h \in Handlers : requests[h].pc \in {"token", "tokenReply"}}

\* C29 as stated: at most one OAuth token request is in flight at any time;
\* requests arriving together while no valid token is cached share one fetch.
C29_OneTokenRequestInFlight == Cardinality(FetchingToken) <= 1

\* C29, amended: token requests are not shared.  Every handler that calls
\* getAmadeusToken() while no valid token is cached makes its own token
\* request, whether or not another one is in flight, and goes on with the
\* token of its own request; the cache holds the token of the response
\* handled last.  A handler that arrives while a valid token is cached makes
\* no token request and uses the cached token.
C29_EachMissFetchesItsOwnToken ==
    /\ [](\A h \in Handlers :
            requests[h].pc \in {"upstream", "done"} /\ requests[h].token # NullToken
               => IF requests[h].hit
                  THEN ~Called(h, "token")
                  ELSE /\ requests[h].upstream[1] = "token"
                       /\ requests[h].token = requests[h].reply
                       /\ requests[h].token.n = h)
    /\ [][\A h \in Handlers :
            /\ (requests[h].pc = "tokenReply" /\ requests'[h].pc # "tokenReply")
                  => accessToken' = requests[h].reply
            /\ Received(h)
                  => IF /\ accessToken # NullToken
                        /\ ~tokenExpiry.isNull
                        /\ serverNow < tokenExpiry.ms
                     THEN /\ requests'[h].hit
                          /\ requests'[h].token = accessToken
                          /\ requests'[h].pc # "token"
                     ELSE requests'[h].pc = "token"]_vars

\* C29 witness: two handlers are each past a token request of their own, with
\* different tokens, and the cache holds the token of the first.
C29_Witness ==
    /\ \A h \in Handlers : requests[h].pc = "upstream" /\ ~requests[h].hit
    /\ requests[1].token.n = 1
    /\ requests[2].token.n = 2
    /\ accessToken = requests[1].token


\* a context operation that touches the recent searches has completed
TouchedRecentSearches == lastGet.after # "nocall" \/ sinceClear.outcome # "none"

\* C30 as stated: whenever a context operation that touches recent searches
\* has completed and none is in flight, recentSearches equals the list stored
\* under the recent-searches key, empty when the key holds none.
C30_ContextMirrorsStore ==
    pc = "idle" /\ TouchedRecentSearches
        => recentSearches = StoredListOrEmpty(RecentKey, TRUE)

\* C30, amended: recentSearches is what the last operation on it made of the
\* store.  getRecentSearches, alone or as the refresh of a successful search,
\* sets it to the stored list when its read resolves and the key holds a
\* list, and to the empty list when the read is rejected or the text does not
\* parse, the key keeping what it holds; clearRecentSearches empties it
\* whether the removal resolved or was rejected, and a rejected removal leaves
\* the key as it is; nothing else changes it.  So with no search in flight a
\* list that is not empty is the stored list, and an empty one may stand for a
\* key that holds records.
C30_ContextShowsLastOutcome ==
    /\ [](pc = "idle" /\ recentSearches # <<>>
            => recentSearches = StoredListOrEmpty(RecentKey, TRUE))
    /\ [][/\ \A ok \in BOOLEAN :
               (GetRecentSearches(ok) \/ Refresh(ok))
                  => /\ recentSearches' = StoredListOrEmpty(RecentKey, ok)
                     /\ RecentKey' = RecentKey
          /\ \A ok \in BOOLEAN :
               ClearRecentSearches(ok)
                  => /\ recentSearches' = <<>>
                     /\ RecentKey' = IF ok THEN Absent ELSE RecentKey
          /\ recentSearches' # recentSearches
               => \E ok \in BOOLEAN :
                     GetRecentSearches(ok) \/ Refresh(ok) \/ ClearRecentSearches(ok)]_vars

\* C30 witness: a clear whose removal was rejected has emptied the list of the
\* provider over a key that still holds a record a search has appended.
C30_Witness ==
    /\ pc = "idle"
    /\ sinceClear.outcome = "rejected"
    /\ recentSearches = <<>>
    /\ RecentKey.tag = "list"
    /\ Len(appended) > 0

====
